---- MODULE Spec2Model ----
(***************************************************************************)
(* Model of the car-tuning recommendation engine                           *)
(* (src/src/recommendation_engine.py, src/src/knowledge_base.py,           *)
(* src/src/models.py).                                                     *)
(*                                                                         *)
(* One behaviour is one call of                                            *)
(* TuningRecommendationEngine.generate_recommendations: Init chooses the   *)
(* request, the actions are the steps of the call in program order.        *)
(*                                                                         *)
(* Money is in whole USD.  Priority scores are integers in units of        *)
(* 1/ScoreUnit, so that the factors 1.2, 0.7 and 1.1 are exact.            *)
(***************************************************************************)
EXTENDS Integers, Sequences, FiniteSets, Bags, TLC

(***************************************************************************)
(* Bounds of the model.                                                    *)
(***************************************************************************)
\* longest primary_goals list of a request
MaxGoals == 2

(***************************************************************************)
(* models.py: enumerations.  A (str, Enum) member is modelled by its       *)
(* string value, which is what .value returns.                             *)
(***************************************************************************)
EngineType == {"petrol", "diesel", "hybrid", "electric"}

ExperienceLevel == {"beginner", "intermediate", "advanced"}

DrivingGoal == {"performance", "fuel_economy", "daily_comfort", "track_use", "off_roading"}

BudgetRange == {"budget", "moderate", "premium", "unlimited"}

TuningCategory == {"ecu_remapping", "exhaust_system", "suspension", "air_intake",
                   "tires_wheels", "brake_system", "cosmetic"}

SafetyLevel == {"low", "medium", "high"}

\* Optional[float] = None; max_budget is declared ge=0, so -1 is free to stand
\* for the absent value
None == -1

\* max_budget values a request may carry (None = field absent)
BudgetValues == {None, 0, 400, 1000, 2000, 6000, 15000}

\* priority scores are stored as score * ScoreUnit
ScoreUnit == 10000

(***************************************************************************)
(* Python string semantics used by the engine.                             *)
(***************************************************************************)
Alphabet == "abcdefghijklmnopqrstuvwxyz_"

\* position of a one-character string in code point order (the enum values
\* are lower-case ASCII letters; '_' is placed last only for totality and
\* does not occur in a SafetyLevel value)
Ord(c) == CHOOSE i \in 1..Len(Alphabet) : SubSeq(Alphabet, i, i) = c

Min2(a, b) == IF a <= b THEN a ELSE b

\* a > b on Python str: lexicographic by code point, a proper prefix is smaller
StrGreater(a, b) ==
    LET n == Min2(Len(a), Len(b))
        differ == {i \in 1..n : SubSeq(a, i, i) # SubSeq(b, i, i)}
    IN  IF differ = {}
        THEN Len(a) > Len(b)
        ELSE LET k == CHOOSE i \in differ : \A j \in differ : i <= j
             IN  Ord(SubSeq(a, k, k)) > Ord(SubSeq(b, k, k))

\* sub in s on Python str
StrContains(sub, s) ==
    \E i \in 1..(Len(s) - Len(sub) + 1) : SubSeq(s, i, i + Len(sub) - 1) = sub

(***************************************************************************)
(* State: the engine instance, and one call of generate_recommendations.   *)
(***************************************************************************)
VARIABLES
    engine,                  \* the TuningRecommendationEngine instance:
                             \* knowledge_base.tuning_options, goal_priorities,
                             \* experience_filters
    returned_reports,        \* the reports earlier calls on the instance returned
    agent,                   \* CarTuningAgent.generate_recommendations: its
                             \* position, the validator's verdicts, the
                             \* use_llm_enhancement attribute, what it returned
    enhancer,                \* LLMEnhancer.enhance_recommendations: its
                             \* position and locals
    parked,                  \* the arguments and locals of a second call of
                             \* generate_recommendations, while it is suspended
    lookup,                  \* one lookup in the knowledge base: the method,
                             \* its key and what it returned
    car_info,                \* argument: CarInfo
    user_preferences,        \* argument: UserPreferences
    pc,                      \* position in generate_recommendations
    max_budget,              \* local max_budget (line 91)
    goal_index,              \* index of the next goal of the loop at line 98
    all_recommendations,     \* local all_recommendations
    sorted_recommendations,  \* local sorted_recommendations
    rec_index,               \* index of the next rec of the loop at line 262
    filtered,                \* _filter_by_budget: local filtered
    total_cost,              \* _filter_by_budget: local total_cost
    admitted,                \* history: per element of filtered, "max" or "min",
                             \* the branch of _filter_by_budget that appended it
    report                   \* the returned TuningReport

\* the arguments and locals of the running call
call_vars == <<car_info, user_preferences, pc, max_budget, goal_index,
               all_recommendations, sorted_recommendations, rec_index, filtered,
               total_cost, admitted, report>>

\* what a call of generate_recommendations does not write
frame == <<engine, returned_reports, agent, enhancer, parked, lookup>>

vars == <<engine, returned_reports, agent, enhancer, parked, lookup, car_info, user_preferences, pc, max_budget, goal_index,
          all_recommendations, sorted_recommendations, rec_index, filtered,
          total_cost, admitted, report>>

(***************************************************************************)
(* knowledge_base.py: the static catalog.  The fields the engine's         *)
(* decisions read and the text fields the enhancer rewrites are kept.      *)
(***************************************************************************)
Option(n, lo, hi, score, safety, w, e, i, d, b, sw, lc) ==
    [name |-> n, cost_range |-> [min |-> lo, max |-> hi],
     priority_score |-> score, safety_level |-> safety,
     warranty_impact |-> w, emissions_impact |-> e, insurance_impact |-> i,
     description |-> d, benefits |-> b, safety_warnings |-> sw,
     legal_considerations |-> lc]

tuning_options ==
    [c \in TuningCategory |->
       CASE c = "ecu_remapping" ->
              << Option("Stage 1 ECU Remap", 300, 800, 90000, "medium",
                        "Likely to void powertrain warranty",
                        "May affect emissions compliance",
                        "May require insurance notification",
                        "Optimizes fuel injection, ignition timing, and boost pressure for improved performance",
                        <<"10-20% power increase", "Better throttle response", "Improved fuel efficiency">>,
                        <<"May void warranty", "Ensure professional installation">>,
                        <<"Check local emissions laws", "May affect insurance">>),
                 Option("Stage 2 ECU Remap", 500, 1200, 85000, "high",
                        "Will void warranty",
                        "Will fail emissions testing",
                        "Will affect insurance coverage",
                        "Advanced ECU tuning for modified engines with supporting hardware",
                        <<"20-35% power increase", "Enhanced torque delivery", "Customizable power curves">>,
                        <<"High risk of engine damage if not properly tuned", "Requires supporting hardware">>,
                        <<"Likely illegal for road use", "Track use only">>) >>
         [] c = "exhaust_system" ->
              << Option("Performance Exhaust System", 400, 2000, 75000, "low",
                        "May affect exhaust warranty",
                        "May affect emissions compliance",
                        "Minimal impact",
                        "Replaces stock exhaust with high-flow system for better performance and sound",
                        <<"5-15% power increase", "Improved exhaust flow", "Enhanced engine sound">>,
                        <<"Ensure proper fitment", "Check for leaks after installation">>,
                        <<"Check local noise regulations", "May require emissions testing">>),
                 Option("Cat-Back Exhaust System", 300, 1500, 70000, "low",
                        "Minimal impact",
                        "Minimal impact",
                        "Minimal impact",
                        "Replaces exhaust from catalytic converter back for improved flow",
                        <<"3-8% power increase", "Better exhaust flow", "Sportier sound">>,
                        <<"Ensure proper fitment", "Check for leaks">>,
                        <<"Generally street legal", "Check local regulations">>) >>
         [] c = "air_intake" ->
              << Option("Cold Air Intake System", 150, 500, 65000, "low",
                        "Minimal impact",
                        "Minimal impact",
                        "Minimal impact",
                        "Replaces stock air filter with high-flow system for better air delivery",
                        <<"3-8% power increase", "Improved throttle response", "Better engine breathing">>,
                        <<"Ensure proper fitment", "Check for air leaks">>,
                        <<"Generally street legal", "May require CARB approval">>),
                 Option("Performance Air Filter", 50, 200, 50000, "low",
                        "Minimal impact",
                        "No impact",
                        "No impact",
                        "High-flow air filter for improved air flow",
                        <<"1-3% power increase", "Better air flow", "Reusable">>,
                        <<"Ensure proper fitment", "Regular cleaning required">>,
                        <<"Generally street legal">>) >>
         [] c = "suspension" ->
              << Option("Lowering Springs", 200, 800, 60000, "medium",
                        "May affect suspension warranty",
                        "No impact",
                        "Minimal impact",
                        "Lower ride height and improve handling with stiffer springs",
                        <<"Improved handling", "Lower center of gravity", "Sportier appearance">>,
                        <<"May affect ride quality", "Check ground clearance">>,
                        <<"Check local height restrictions", "May affect safety inspections">>),
                 Option("Coilover Suspension", 800, 3000, 75000, "medium",
                        "Will affect suspension warranty",
                        "No impact",
                        "May affect insurance",
                        "Adjustable suspension system for maximum handling and ride height control",
                        <<"Fully adjustable ride height", "Improved handling", "Customizable damping">>,
                        <<"Professional installation required", "Proper setup critical">>,
                        <<"Check local height restrictions", "May require certification">>) >>
         [] c = "tires_wheels" ->
              << Option("Performance Tires", 400, 1200, 80000, "low",
                        "No impact",
                        "No impact",
                        "No impact",
                        "High-performance tires for improved grip and handling",
                        <<"Better grip", "Improved handling", "Shorter braking distances">>,
                        <<"Shorter tread life", "May affect ride quality">>,
                        <<"Must meet DOT standards", "Check local regulations">>),
                 Option("Lightweight Wheels", 600, 2000, 65000, "low",
                        "No impact",
                        "No impact",
                        "No impact",
                        "Lightweight alloy wheels for reduced unsprung weight",
                        <<"Reduced unsprung weight", "Improved handling", "Better acceleration">>,
                        <<"Ensure proper fitment", "Check load rating">>,
                        <<"Must meet safety standards", "Check local regulations">>) >>
         [] c = "brake_system" ->
              << Option("Performance Brake Pads", 100, 400, 70000, "medium",
                        "May affect brake warranty",
                        "No impact",
                        "No impact",
                        "High-performance brake pads for improved stopping power",
                        <<"Better stopping power", "Improved fade resistance", "Better pedal feel">>,
                        <<"May produce more dust", "Bed-in procedure required">>,
                        <<"Must meet safety standards">>),
                 Option("Big Brake Kit", 1500, 5000, 85000, "high",
                        "Will affect brake warranty",
                        "No impact",
                        "May affect insurance",
                        "Larger brake rotors and calipers for maximum stopping power",
                        <<"Maximum stopping power", "Better heat dissipation", "Improved fade resistance">>,
                        <<"Professional installation required", "Proper bleeding critical">>,
                        <<"Must meet safety standards", "May require certification">>) >>
         [] c = "cosmetic" ->
              << Option("Body Kit", 500, 3000, 30000, "low",
                        "No impact on mechanical warranty",
                        "No impact",
                        "May affect insurance",
                        "Aesthetic modifications for improved appearance",
                        <<"Improved appearance", "Better aerodynamics", "Personalization">>,
                        <<"Ensure proper fitment", "Check for sharp edges">>,
                        <<"Check local regulations", "May require certification">>) >> ]

budget_ranges ==
    [b \in BudgetRange |->
       CASE b = "budget"    -> [min |-> 500,   max |-> 2000]
         [] b = "moderate"  -> [min |-> 2000,  max |-> 8000]
         [] b = "premium"   -> [min |-> 8000,  max |-> 20000]
         [] b = "unlimited" -> [min |-> 20000, max |-> 100000]]

get_tuning_options_for_category(category) ==
    IF category \in DOMAIN engine.tuning_options
    THEN engine.tuning_options[category]
    ELSE << >>

\* an empty dict for a key that is no budget tier
get_budget_range_EmptyDefault(budget_range) ==
    IF budget_range \in DOMAIN budget_ranges
    THEN budget_ranges[budget_range]
    ELSE << >>

get_budget_range(budget_range) ==
    IF budget_range \in DOMAIN budget_ranges
    THEN budget_ranges[budget_range]
    ELSE [min |-> 0, max |-> 0]

(***************************************************************************)
(* recommendation_engine.py: the two tables built by __init__.             *)
(***************************************************************************)
goal_priorities ==
    [g \in DrivingGoal |->
       CASE g = "performance" ->
              <<"ecu_remapping", "exhaust_system", "air_intake", "tires_wheels",
                "brake_system", "suspension", "cosmetic">>
         [] g = "fuel_economy" ->
              <<"ecu_remapping", "air_intake", "tires_wheels", "cosmetic">>
         [] g = "daily_comfort" ->
              <<"suspension", "tires_wheels", "cosmetic">>
         [] g = "track_use" ->
              <<"ecu_remapping", "brake_system", "suspension", "tires_wheels",
                "exhaust_system", "air_intake", "cosmetic">>
         [] g = "off_roading" ->
              <<"suspension", "tires_wheels", "brake_system", "cosmetic">>]

\* every level served with the intermediate bundle
experience_filters_AllIntermediate ==
    [x \in ExperienceLevel |->
       [max_safety_level |-> "high", max_priority_score |-> 85000,
        avoid_high_risk_mods |-> FALSE]]

experience_filters ==
    [x \in ExperienceLevel |->
       CASE x = "beginner" ->
              [max_safety_level |-> "medium", max_priority_score |-> 70000,
               avoid_high_risk_mods |-> TRUE]
         [] x = "intermediate" ->
              [max_safety_level |-> "high", max_priority_score |-> 85000,
               avoid_high_risk_mods |-> FALSE]
         [] x = "advanced" ->
              [max_safety_level |-> "high", max_priority_score |-> 100000,
               avoid_high_risk_mods |-> FALSE]]

(***************************************************************************)
(* Requests.                                                               *)
(***************************************************************************)
Vehicles ==
    { [make |-> "BMW",        model |-> "3 Series", year |-> 2021, engine_type |-> "petrol"],
      [make |-> "Tesla",      model |-> "Model 3",  year |-> 2022, engine_type |-> "electric"],
      [make |-> "Toyota",     model |-> "Prius",    year |-> 2020, engine_type |-> "hybrid"],
      [make |-> "Volkswagen", model |-> "Golf",     year |-> 2019, engine_type |-> "diesel"] }

GoalLists == UNION {[1..n -> DrivingGoal] : n \in 0..MaxGoals}

Preferences ==
    [primary_goals : GoalLists, budget_range : BudgetRange,
     experience_level : ExperienceLevel, max_budget : BudgetValues]

\* a or b on Optional[float]: None and 0.0 are falsy
PyOr(a, b) == IF a = None \/ a = 0 THEN b ELSE a

(***************************************************************************)
(* recommendation_engine.py: the helpers of the engine.                    *)
(***************************************************************************)
\* the priority-score ceiling applied to every level as the beginner's 7.0
_passes_experience_filters_FixedCeiling(option, filters) ==
    IF StrGreater(option.safety_level, filters.max_safety_level) THEN FALSE
    ELSE IF option.priority_score > 70000 THEN FALSE
    ELSE IF filters.avoid_high_risk_mods /\ option.safety_level = "high" THEN FALSE
    ELSE TRUE

_passes_experience_filters(option, filters) ==
    IF StrGreater(option.safety_level, filters.max_safety_level) THEN FALSE
    ELSE IF option.priority_score > filters.max_priority_score THEN FALSE
    ELSE IF filters.avoid_high_risk_mods /\ option.safety_level = "high" THEN FALSE
    ELSE TRUE

\* the electric rule left out
_is_compatible_with_engine_NoRule(option, engine_type) == TRUE

_is_compatible_with_engine(option, engine_type) ==
    IF StrContains("ECU", option.name) /\ engine_type = "electric" THEN FALSE
    ELSE TRUE

InList(x, list) == \E i \in 1..Len(list) : list[i] = x

\* the budget-friendly boost left out
_adjust_priority_score_NoBoost(recommendation, goal, preferences) ==
    LET s0 == recommendation.priority_score
        s1 == IF InList(goal, preferences.primary_goals)
              THEN (s0 * 12) \div 10 ELSE s0
        s2 == IF preferences.experience_level = "beginner"
                 /\ recommendation.safety_level = "high"
              THEN (s1 * 7) \div 10 ELSE s1
    IN  Min2(s2, 10 * ScoreUnit)

\* the final min(base_score, 10.0) left out
_adjust_priority_score_NoClamp(recommendation, goal, preferences) ==
    LET s0 == recommendation.priority_score
        s1 == IF InList(goal, preferences.primary_goals)
              THEN (s0 * 12) \div 10 ELSE s0
        s2 == IF preferences.experience_level = "beginner"
                 /\ recommendation.safety_level = "high"
              THEN (s1 * 7) \div 10 ELSE s1
    IN  IF preferences.budget_range = "budget"
           /\ recommendation.cost_range.max < 1000
        THEN (s2 * 11) \div 10 ELSE s2

\* the 1.2 boost given for the first goal of the request only
_adjust_priority_score_FirstGoalOnly(recommendation, goal, preferences) ==
    LET s0 == recommendation.priority_score
        s1 == IF goal = preferences.primary_goals[1]
              THEN (s0 * 12) \div 10 ELSE s0
        s2 == IF preferences.experience_level = "beginner"
                 /\ recommendation.safety_level = "high"
              THEN (s1 * 7) \div 10 ELSE s1
        s3 == IF preferences.budget_range = "budget"
                 /\ recommendation.cost_range.max < 1000
              THEN (s2 * 11) \div 10 ELSE s2
    IN  Min2(s3, 10 * ScoreUnit)

_adjust_priority_score(recommendation, goal, preferences) ==
    LET s0 == recommendation.priority_score
        s1 == IF InList(goal, preferences.primary_goals)
              THEN (s0 * 12) \div 10 ELSE s0
        s2 == IF preferences.experience_level = "beginner"
                 /\ recommendation.safety_level = "high"
              THEN (s1 * 7) \div 10 ELSE s1
        s3 == IF preferences.budget_range = "budget"
                 /\ recommendation.cost_range.max < 1000
              THEN (s2 * 11) \div 10 ELSE s2
    IN  Min2(s3, 10 * ScoreUnit)

\* lines 165-186: the TuningRecommendation built from an option, with its
\* priority score adjusted
MakeRecommendation(category, option, goal, preferences) ==
    LET recommendation ==
            [category |-> category, name |-> option.name,
             cost_range |-> option.cost_range,
             warranty_impact |-> option.warranty_impact,
             emissions_impact |-> option.emissions_impact,
             insurance_impact |-> option.insurance_impact,
             priority_score |-> option.priority_score,
             safety_level |-> option.safety_level,
             description |-> option.description,
             benefits |-> option.benefits,
             safety_warnings |-> option.safety_warnings,
             legal_considerations |-> option.legal_considerations]
    IN  [recommendation EXCEPT
           !.priority_score = _adjust_priority_score(recommendation, goal, preferences)]

\* the budget filter left out
OptionKept_NoBudget(option, engine_type, budget, filters) ==
    /\ _passes_experience_filters(option, filters)
    /\ _is_compatible_with_engine(option, engine_type)

\* lines 151-162: the three filters of the option loop
OptionKept(option, engine_type, budget, filters) ==
    /\ _passes_experience_filters(option, filters)
    /\ ~(option.cost_range.max > budget)
    /\ _is_compatible_with_engine(option, engine_type)

\* lines 149-188: the recommendations one category contributes
CategoryRecommendations(car, preferences, goal, category, budget, filters) ==
    LET category_options == get_tuning_options_for_category(category)
        kept == SelectSeq(category_options,
                          LAMBDA o : OptionKept(o, car.engine_type, budget, filters))
    IN  [i \in 1..Len(kept) |-> MakeRecommendation(category, kept[i], goal, preferences)]

RECURSIVE ConcatCategories(_, _, _, _, _, _)
ConcatCategories(car, preferences, goal, categories, budget, filters) ==
    IF categories = << >> THEN << >>
    ELSE CategoryRecommendations(car, preferences, goal, Head(categories), budget, filters)
         \o ConcatCategories(car, preferences, goal, Tail(categories), budget, filters)

\* the categories in the order the catalog lists them
CategoryOrder ==
    <<"ecu_remapping", "exhaust_system", "air_intake", "suspension",
      "tires_wheels", "brake_system", "cosmetic">>

\* every category of the catalog visited, whatever the goal
_generate_goal_recommendations_AllCategories(car, preferences, goal, budget, filters) ==
    ConcatCategories(car, preferences, goal, CategoryOrder, budget, filters)

_generate_goal_recommendations(car, preferences, goal, budget, filters) ==
    ConcatCategories(car, preferences, goal, engine.goal_priorities[goal], budget, filters)

RECURSIVE DedupFrom(_, _)
DedupFrom(recommendations, seen) ==
    IF recommendations = << >> THEN << >>
    ELSE LET rec == Head(recommendations)
             key == <<rec.category, rec.name>>
         IN  IF key \notin seen
             THEN <<rec>> \o DedupFrom(Tail(recommendations), seen \cup {key})
             ELSE DedupFrom(Tail(recommendations), seen)

\* nothing removed
_deduplicate_recommendations_KeepAll(recommendations) == recommendations

_deduplicate_recommendations(recommendations) == DedupFrom(recommendations, {})

\* an unstable sort: an element goes in front of the elements with its key
RECURSIVE InsertDesc_BeforeEquals(_, _)
InsertDesc_BeforeEquals(rec, list) ==
    IF list = << >> THEN <<rec>>
    ELSE IF Head(list).priority_score > rec.priority_score
         THEN <<Head(list)>> \o InsertDesc_BeforeEquals(rec, Tail(list))
         ELSE <<rec>> \o list

\* sorted(..., key=priority_score, reverse=True): stable, so an element goes
\* behind every element whose key is not smaller
RECURSIVE InsertDesc(_, _)
InsertDesc(rec, list) ==
    IF list = << >> THEN <<rec>>
    ELSE IF Head(list).priority_score >= rec.priority_score
         THEN <<Head(list)>> \o InsertDesc(rec, Tail(list))
         ELSE <<rec>> \o list

\* ascending instead of descending (reverse=True forgotten)
RECURSIVE InsertAsc(_, _)
InsertAsc(rec, list) ==
    IF list = << >> THEN <<rec>>
    ELSE IF Head(list).priority_score <= rec.priority_score
         THEN <<Head(list)>> \o InsertAsc(rec, Tail(list))
         ELSE <<rec>> \o list

RECURSIVE SortedAsc(_)
SortedAsc(list) ==
    IF list = << >> THEN << >>
    ELSE InsertAsc(list[Len(list)], SortedAsc(SubSeq(list, 1, Len(list) - 1)))

RECURSIVE SortedDesc(_)
SortedDesc(list) ==
    IF list = << >> THEN << >>
    ELSE InsertDesc(list[Len(list)], SortedDesc(SubSeq(list, 1, Len(list) - 1)))

RECURSIVE SumCost(_, _)
SumCost(recommendations, bound) ==
    IF recommendations = << >> THEN 0
    ELSE Head(recommendations).cost_range[bound] + SumCost(Tail(recommendations), bound)

_calculate_total_cost(recommendations) ==
    [min |-> SumCost(recommendations, "min"),
     max |-> SumCost(recommendations, "max"),
     currency |-> "USD"]

\* the slice left out
Take_All(list, n) == list

\* list[-n:]
Take_Last(list, n) == SubSeq(list, Len(list) - Min2(n, Len(list)) + 1, Len(list))

\* list[:n]
Take(list, n) == SubSeq(list, 1, Min2(n, Len(list)))

\* filtered[:10] at line 273
MaxRecommendations == 10

\* _generate_disclaimer: a fixed text (its first line stands for the whole)
_generate_disclaimer == "IMPORTANT DISCLAIMER:"

\* any text that holds "No impact" taken for the sentinel
HasImpact_LooseSentinel(text) == ~StrContains("No impact", text)

\* lines 325, 327, 329: the comparison with the sentinel
HasImpact(text) == text # "No impact"

\* the list the loop of _generate_legal_summary appends "<name>: <text>" to
\* for one of the impact fields
RECURSIVE ImpactEntries(_, _)
ImpactEntries(recommendations, field) ==
    IF recommendations = << >> THEN << >>
    ELSE LET rec == Head(recommendations)
         IN  (IF HasImpact(rec[field]) THEN <<rec.name \o ": " \o rec[field]>>
                                       ELSE << >>)
             \o ImpactEntries(Tail(recommendations), field)

\* line 331: legal_considerations.extend(rec.legal_considerations)
RECURSIVE AllLegalConsiderations(_)
AllLegalConsiderations(recommendations) ==
    IF recommendations = << >> THEN << >>
    ELSE Head(recommendations).legal_considerations
         \o AllLegalConsiderations(Tail(recommendations))

\* list(set(items)): every distinct item once; the order of the list is left
\* open by Python, so the list is kept as a bag
ListOfSet(items) == SetToBag({items[i] : i \in 1..Len(items)})

_generate_legal_summary(recommendations) ==
    [warranty_impacts |-> ListOfSet(ImpactEntries(recommendations, "warranty_impact")),
     emissions_impacts |-> ListOfSet(ImpactEntries(recommendations, "emissions_impact")),
     insurance_impacts |-> ListOfSet(ImpactEntries(recommendations, "insurance_impact")),
     legal_considerations |-> ListOfSet(AllLegalConsiderations(recommendations))]

NoReport ==
    [recommendations |-> << >>,
     total_estimated_cost |-> [min |-> 0, max |-> 0, currency |-> "USD"],
     legal_summary |-> _generate_legal_summary(<< >>),
     disclaimer |-> ""]

\* the engine called directly, with no CarTuningAgent around it
DirectCall ==
    [pc |-> "none", car_valid |-> FALSE, pref_valid |-> FALSE,
     use_llm_enhancement |-> FALSE, result |-> NoReport]

\* enhance_recommendations not called; failure names the step that raised
NoEnhancer ==
    [pc |-> "idle", enhanced_analysis |-> << >>, i |-> 0,
     enhanced_recommendations |-> << >>, failure |-> "none",
     result |-> NoReport]

\* the arguments and locals of a call
Call(car, prefs, at, budget, goal, all, sorted, index, kept, spent, how, rep) ==
    [car_info |-> car, user_preferences |-> prefs, pc |-> at,
     max_budget |-> budget, goal_index |-> goal, all_recommendations |-> all,
     sorted_recommendations |-> sorted, rec_index |-> index, filtered |-> kept,
     total_cost |-> spent, admitted |-> how, report |-> rep]

\* no second call
NoCall ==
    Call([make |-> "", model |-> "", year |-> 0, engine_type |-> ""],
         [primary_goals |-> << >>, experience_level |-> "", budget_range |-> "",
          max_budget |-> None],
         "none", 0, 1, << >>, << >>, 1, << >>, 0, << >>, NoReport)

\* no lookup made from outside the engine
NoLookup == [operation |-> "none", key |-> "", returned |-> FALSE, result |-> << >>]

\* __init__ (lines 19-22)
NewEngine ==
    [tuning_options |-> tuning_options,
     goal_priorities |-> goal_priorities,
     experience_filters |-> experience_filters]

(***************************************************************************)
(* generate_recommendations, step by step.                                 *)
(***************************************************************************)
Init ==
    /\ engine = NewEngine
    /\ returned_reports = << >>
    /\ agent = DirectCall
    /\ enhancer = NoEnhancer
    /\ parked = NoCall
    /\ lookup = NoLookup
    /\ car_info \in Vehicles
    /\ user_preferences \in Preferences
    /\ pc = "start"
    /\ max_budget = 0
    /\ goal_index = 1
    /\ all_recommendations = << >>
    /\ sorted_recommendations = << >>
    /\ rec_index = 1
    /\ filtered = << >>
    /\ total_cost = 0
    /\ admitted = << >>
    /\ report = NoReport

\* lines 89-94: resolve the spending cap
ResolveBudget ==
    /\ pc = "start"
    /\ max_budget' = PyOr(user_preferences.max_budget,
                          get_budget_range(user_preferences.budget_range).max)
    /\ pc' = "goals"
    /\ UNCHANGED frame
    /\ UNCHANGED <<car_info, user_preferences, goal_index, all_recommendations,
                   sorted_recommendations, rec_index, filtered, total_cost,
                   admitted, report>>

\* a default goal taken when the request names none
GenerateGoal_DefaultGoal ==
    /\ pc = "goals"
    /\ goal_index <= (IF user_preferences.primary_goals = << >> THEN 1
                      ELSE Len(user_preferences.primary_goals))
    /\ all_recommendations' = all_recommendations \o
           _generate_goal_recommendations(
               car_info, user_preferences,
               IF user_preferences.primary_goals = << >> THEN "daily_comfort"
               ELSE user_preferences.primary_goals[goal_index], max_budget,
               engine.experience_filters[user_preferences.experience_level])
    /\ goal_index' = goal_index + 1
    /\ UNCHANGED frame
    /\ UNCHANGED <<car_info, user_preferences, pc, max_budget,
                   sorted_recommendations, rec_index, filtered, total_cost,
                   admitted, report>>

\* the adjusted score of line 181 stored in the catalog's option instead of
\* the recommendation
GenerateGoal_WritesBack ==
    /\ pc = "goals"
    /\ goal_index <= Len(user_preferences.primary_goals)
    /\ LET goal == user_preferences.primary_goals[goal_index]
           filters == engine.experience_filters[user_preferences.experience_level]
           Written(category, option) ==
               IF /\ InList(category, engine.goal_priorities[goal])
                  /\ OptionKept(option, car_info.engine_type, max_budget, filters)
               THEN [option EXCEPT !.priority_score =
                        _adjust_priority_score(option, goal, user_preferences)]
               ELSE option
       IN  /\ all_recommendations' = all_recommendations \o
                  _generate_goal_recommendations(
                      car_info, user_preferences, goal, max_budget, filters)
           /\ engine' = [engine EXCEPT !.tuning_options =
                  [c \in DOMAIN @ |->
                      [i \in 1..Len(@[c]) |-> Written(c, @[c][i])]]]
    /\ goal_index' = goal_index + 1
    /\ UNCHANGED <<returned_reports, agent, enhancer, parked, lookup, car_info,
                   user_preferences,
                   pc, max_budget,
                   sorted_recommendations, rec_index, filtered, total_cost,
                   admitted, report>>

\* lines 98-102: one iteration of the goal loop
GenerateGoal ==
    /\ pc = "goals"
    /\ goal_index <= Len(user_preferences.primary_goals)
    /\ all_recommendations' = all_recommendations \o
           _generate_goal_recommendations(
               car_info, user_preferences,
               user_preferences.primary_goals[goal_index], max_budget,
               engine.experience_filters[user_preferences.experience_level])
    /\ goal_index' = goal_index + 1
    /\ UNCHANGED frame
    /\ UNCHANGED <<car_info, user_preferences, pc, max_budget,
                   sorted_recommendations, rec_index, filtered, total_cost,
                   admitted, report>>

\* an engine that goes on only when the request names a goal
DeduplicateAndSort_RequiresGoals ==
    /\ pc = "goals"
    /\ user_preferences.primary_goals # << >>
    /\ goal_index > Len(user_preferences.primary_goals)
    /\ sorted_recommendations' =
           SortedDesc(_deduplicate_recommendations(all_recommendations))
    /\ rec_index' = 1
    /\ filtered' = << >>
    /\ total_cost' = 0
    /\ admitted' = << >>
    /\ pc' = "budget"
    /\ UNCHANGED frame
    /\ UNCHANGED <<car_info, user_preferences, max_budget, goal_index,
                   all_recommendations, report>>

\* lines 104-106, and the entry of _filter_by_budget (lines 259-260)
DeduplicateAndSort ==
    /\ pc = "goals"
    /\ goal_index > Len(user_preferences.primary_goals)
    /\ sorted_recommendations' =
           SortedDesc(_deduplicate_recommendations(all_recommendations))
    /\ rec_index' = 1
    /\ filtered' = << >>
    /\ total_cost' = 0
    /\ admitted' = << >>
    /\ pc' = "budget"
    /\ UNCHANGED frame
    /\ UNCHANGED <<car_info, user_preferences, max_budget, goal_index,
                   all_recommendations, report>>

\* the maximum cost compared with the cap without the running total
FilterAcceptMax_IgnoresSpent ==
    /\ pc = "budget"
    /\ rec_index <= Len(sorted_recommendations)
    /\ LET rec == sorted_recommendations[rec_index]
       IN  /\ rec.cost_range.max <= max_budget
           /\ filtered' = Append(filtered, rec)
           /\ total_cost' = total_cost + rec.cost_range.max
           /\ admitted' = Append(admitted, "max")
    /\ rec_index' = rec_index + 1
    /\ UNCHANGED frame
    /\ UNCHANGED <<car_info, user_preferences, pc, max_budget, goal_index,
                   all_recommendations, sorted_recommendations, report>>

\* lines 262-265: the candidate fits at its maximum cost
FilterAcceptMax ==
    /\ pc = "budget"
    /\ rec_index <= Len(sorted_recommendations)
    /\ LET rec == sorted_recommendations[rec_index]
       IN  /\ total_cost + rec.cost_range.max <= max_budget
           /\ filtered' = Append(filtered, rec)
           /\ total_cost' = total_cost + rec.cost_range.max
           /\ admitted' = Append(admitted, "max")
    /\ rec_index' = rec_index + 1
    /\ UNCHANGED frame
    /\ UNCHANGED <<car_info, user_preferences, pc, max_budget, goal_index,
                   all_recommendations, sorted_recommendations, report>>

\* the minimum cost compared with the cap without the running total
FilterAcceptMin_IgnoresSpent ==
    /\ pc = "budget"
    /\ rec_index <= Len(sorted_recommendations)
    /\ LET rec == sorted_recommendations[rec_index]
       IN  /\ ~(total_cost + rec.cost_range.max <= max_budget)
           /\ rec.cost_range.min <= max_budget
           /\ filtered' = Append(filtered, rec)
           /\ total_cost' = total_cost + rec.cost_range.min
           /\ admitted' = Append(admitted, "min")
    /\ rec_index' = rec_index + 1
    /\ UNCHANGED frame
    /\ UNCHANGED <<car_info, user_preferences, pc, max_budget, goal_index,
                   all_recommendations, sorted_recommendations, report>>

\* lines 266-270: it does not, but it fits at its minimum cost
FilterAcceptMin ==
    /\ pc = "budget"
    /\ rec_index <= Len(sorted_recommendations)
    /\ LET rec == sorted_recommendations[rec_index]
       IN  /\ ~(total_cost + rec.cost_range.max <= max_budget)
           /\ total_cost + rec.cost_range.min <= max_budget
           /\ filtered' = Append(filtered, rec)
           /\ total_cost' = total_cost + rec.cost_range.min
           /\ admitted' = Append(admitted, "min")
    /\ rec_index' = rec_index + 1
    /\ UNCHANGED frame
    /\ UNCHANGED <<car_info, user_preferences, pc, max_budget, goal_index,
                   all_recommendations, sorted_recommendations, report>>

\* the loop left at the first candidate that does not fit
FilterSkip_Stops ==
    /\ pc = "budget"
    /\ rec_index <= Len(sorted_recommendations)
    /\ LET rec == sorted_recommendations[rec_index]
       IN  /\ ~(total_cost + rec.cost_range.max <= max_budget)
           /\ ~(total_cost + rec.cost_range.min <= max_budget)
    /\ rec_index' = Len(sorted_recommendations) + 1
    /\ UNCHANGED frame
    /\ UNCHANGED <<car_info, user_preferences, pc, max_budget, goal_index,
                   all_recommendations, sorted_recommendations, filtered,
                   total_cost, admitted, report>>

\* lines 262-270: neither branch appends; the loop goes on
FilterSkip ==
    /\ pc = "budget"
    /\ rec_index <= Len(sorted_recommendations)
    /\ LET rec == sorted_recommendations[rec_index]
       IN  /\ ~(total_cost + rec.cost_range.max <= max_budget)
           /\ ~(total_cost + rec.cost_range.min <= max_budget)
    /\ rec_index' = rec_index + 1
    /\ UNCHANGED frame
    /\ UNCHANGED <<car_info, user_preferences, pc, max_budget, goal_index,
                   all_recommendations, sorted_recommendations, filtered,
                   total_cost, admitted, report>>

\* line 273 and lines 111-134: truncate, total the costs, return the report
\* the totals taken from the budget loop: its running total_cost as the
\* maximum, and every accepted item counted
ReturnReport_TotalsFromLoop ==
    /\ pc = "budget"
    /\ rec_index > Len(sorted_recommendations)
    /\ report' = [recommendations |-> Take(filtered, MaxRecommendations),
                  total_estimated_cost |->
                      [min |-> SumCost(filtered, "min"), max |-> total_cost,
                       currency |-> "USD"],
                  legal_summary |->
                      _generate_legal_summary(Take(filtered, MaxRecommendations)),
                  disclaimer |-> _generate_disclaimer]
    /\ pc' = "done"
    /\ UNCHANGED frame
    /\ UNCHANGED <<car_info, user_preferences, max_budget, goal_index,
                   all_recommendations, sorted_recommendations, rec_index,
                   filtered, total_cost, admitted>>

ReturnReport ==
    /\ pc = "budget"
    /\ rec_index > Len(sorted_recommendations)
    /\ LET filtered_recommendations == Take(filtered, MaxRecommendations)
       IN  /\ report' = [recommendations |-> filtered_recommendations,
                         total_estimated_cost |->
                             _calculate_total_cost(filtered_recommendations),
                         legal_summary |->
                             _generate_legal_summary(filtered_recommendations),
                         disclaimer |-> _generate_disclaimer]
    /\ pc' = "done"
    /\ UNCHANGED frame
    /\ UNCHANGED <<car_info, user_preferences, max_budget, goal_index,
                   all_recommendations, sorted_recommendations, rec_index,
                   filtered, total_cost, admitted>>

Next ==
    \/ ResolveBudget
    \/ GenerateGoal
    \/ DeduplicateAndSort
    \/ FilterAcceptMax
    \/ FilterAcceptMin
    \/ FilterSkip
    \/ ReturnReport

Spec == Init /\ [][Next]_vars

(***************************************************************************)
(* Two calls in a row on one engine instance, with the same arguments.     *)
(***************************************************************************)
\* the caller keeps the report and calls generate_recommendations again
CallAgain ==
    /\ pc = "done"
    /\ returned_reports = << >>
    /\ returned_reports' = <<report>>
    /\ pc' = "start"
    /\ max_budget' = 0
    /\ goal_index' = 1
    /\ all_recommendations' = << >>
    /\ sorted_recommendations' = << >>
    /\ rec_index' = 1
    /\ filtered' = << >>
    /\ total_cost' = 0
    /\ admitted' = << >>
    /\ report' = NoReport
    /\ UNCHANGED <<engine, agent, enhancer, parked, lookup, car_info, user_preferences>>

SeqNext ==
    \/ Next
    \/ CallAgain

SeqSpec == Init /\ [][SeqNext]_vars

(***************************************************************************)
(* _filter_by_budget as a function of its arguments: the candidate lists   *)
(* are sublists of the whole catalog, ordered as line 106 orders them, and *)
(* the caps are upper bounds of budget tiers, and one max_budget of the    *)
(* request's own, that no option's maximum exceeds (line 157).             *)
(***************************************************************************)
MaxDropped == 4

RECURSIVE CatalogRecommendations(_, _)
CatalogRecommendations(categories, preferences) ==
    IF categories = << >> THEN << >>
    ELSE LET category == Head(categories)
             category_options == tuning_options[category]
         IN  [i \in 1..Len(category_options) |->
                 MakeRecommendation(category, category_options[i],
                                    "performance", preferences)]
             \o CatalogRecommendations(Tail(categories), preferences)

\* the items of list at the positions in kept, in order
RECURSIVE SubList(_, _, _)
SubList(list, kept, i) ==
    IF i > Len(list) THEN << >>
    ELSE (IF i \in kept THEN <<list[i]>> ELSE << >>) \o SubList(list, kept, i + 1)

\* a max_budget of the request's own, between the moderate and premium caps
CustomBudget == 12500

FilterPreferences ==
    [primary_goals : {<<"performance">>}, experience_level : {"advanced"},
     budget_range : {"moderate", "premium", "unlimited"}, max_budget : {None}]
    \cup
    [primary_goals : {<<"performance">>}, experience_level : {"advanced"},
     budget_range : {"moderate"}, max_budget : {CustomBudget}]

FilterInit ==
    /\ engine = NewEngine
    /\ returned_reports = << >>
    /\ agent = DirectCall
    /\ enhancer = NoEnhancer
    /\ parked = NoCall
    /\ lookup = NoLookup
    /\ car_info \in {v \in Vehicles : v.engine_type = "petrol"}
    /\ user_preferences \in FilterPreferences
    /\ max_budget = PyOr(user_preferences.max_budget,
                         get_budget_range(user_preferences.budget_range).max)
    /\ goal_index = 2
    /\ all_recommendations = << >>
    /\ LET candidates ==
               SortedDesc(CatalogRecommendations(CategoryOrder, user_preferences))
       IN  \E kept \in SUBSET (1..Len(candidates)) :
               /\ Len(candidates) - Cardinality(kept) <= MaxDropped
               /\ sorted_recommendations = SubList(candidates, kept, 1)
    /\ pc = "budget"
    /\ rec_index = 1
    /\ filtered = << >>
    /\ total_cost = 0
    /\ admitted = << >>
    /\ report = NoReport

FilterNext ==
    \/ FilterAcceptMax
    \/ FilterAcceptMin
    \/ FilterSkip
    \/ ReturnReport

FilterSpec == FilterInit /\ [][FilterNext]_vars

(***************************************************************************)
(* input_validator.py.                                                     *)
(***************************************************************************)
UpperCase == "ABCDEFGHIJKLMNOPQRSTUVWXYZ"
LowerCase == "abcdefghijklmnopqrstuvwxyz"

\* str.lower() on one character
LowerChar(c) ==
    IF \E k \in 1..Len(UpperCase) : SubSeq(UpperCase, k, k) = c
    THEN LET k == CHOOSE k \in 1..Len(UpperCase) : SubSeq(UpperCase, k, k) = c
         IN  SubSeq(LowerCase, k, k)
    ELSE c

\* str.lower()
RECURSIVE Lower(_)
Lower(s) ==
    IF Len(s) = 0 THEN ""
    ELSE LowerChar(SubSeq(s, 1, 1)) \o Lower(SubSeq(s, 2, Len(s)))

valid_makes ==
    <<"Toyota", "Honda", "Ford", "Chevrolet", "Nissan", "BMW", "Mercedes-Benz",
      "Audi", "Volkswagen", "Hyundai", "Kia", "Mazda", "Subaru", "Mitsubishi",
      "Lexus", "Infiniti", "Acura", "Volvo", "Saab", "Peugeot", "Renault",
      "Fiat", "Alfa Romeo", "Ferrari", "Lamborghini", "Porsche", "Aston Martin",
      "Bentley", "Rolls-Royce", "McLaren", "Bugatti", "Koenigsegg", "Pagani",
      "Tesla", "Rivian", "Lucid", "Polestar", "NIO", "BYD", "Rimac">>

valid_models ==
    [Toyota |-> <<"Camry", "Corolla", "Prius", "RAV4", "Highlander", "Tacoma",
                  "Tundra", "Supra", "86">>,
     Honda |-> <<"Civic", "Accord", "CR-V", "Pilot", "Ridgeline", "NSX", "S2000">>,
     Ford |-> <<"F-150", "Mustang", "Focus", "Fusion", "Escape", "Explorer",
                "Bronco", "GT">>,
     BMW |-> <<"3 Series", "5 Series", "7 Series", "X3", "X5", "M3", "M5", "i3",
               "i8">>,
     Tesla |-> <<"Model S", "Model 3", "Model X", "Model Y", "Cybertruck",
                 "Roadster">>,
     Porsche |-> <<"911", "Cayman", "Boxster", "Cayenne", "Macan", "Panamera",
                   "Taycan">>,
     Audi |-> <<"A3", "A4", "A6", "Q3", "Q5", "Q7", "RS3", "RS6", "e-tron">>]
    @@ ("Mercedes-Benz" :> <<"C-Class", "E-Class", "S-Class", "GLC", "GLE",
                             "AMG GT", "EQS">>)

engine_compatibility ==
    [petrol |-> <<"Toyota", "Honda", "Ford", "BMW", "Mercedes-Benz", "Audi",
                  "Porsche">>,
     diesel |-> <<"BMW", "Mercedes-Benz", "Audi", "Volkswagen", "Volvo">>,
     hybrid |-> <<"Toyota", "Honda", "Ford", "BMW", "Mercedes-Benz", "Audi">>,
     electric |-> <<"Tesla", "BMW", "Mercedes-Benz", "Audi", "Porsche", "Rivian",
                    "Lucid">>]

\* x in [m.lower() for m in list]
InLowered(x, list) == \E k \in 1..Len(list) : Lower(list[k]) = x

_validate_make(make) == InLowered(Lower(make), valid_makes)

_validate_model(make, model) ==
    IF make \notin DOMAIN valid_models THEN TRUE
    ELSE InList(model, valid_models[make])

MinYear == 1900
MaxYear == 2030

_validate_year(year) == MinYear <= year /\ year <= MaxYear

common_makes ==
    <<"Toyota", "Honda", "Ford", "BMW", "Mercedes-Benz", "Audi", "Volkswagen",
      "Hyundai", "Kia">>

_validate_engine_compatibility(make, engine_type) ==
    IF InLowered(Lower(make), common_makes) THEN TRUE
    ELSE LET compatible_makes ==
                 IF engine_type \in DOMAIN engine_compatibility
                 THEN engine_compatibility[engine_type] ELSE << >>
         IN  InLowered(Lower(make), compatible_makes)

MinModificationLength == 3
MaxModificationLength == 100

inappropriate_words == <<"illegal", "unsafe", "dangerous", "void">>

_validate_modification(modification) ==
    IF Len(modification) < MinModificationLength
       \/ Len(modification) > MaxModificationLength
    THEN FALSE
    ELSE ~\E k \in 1..Len(inappropriate_words) :
             StrContains(inappropriate_words[k], Lower(modification))

\* CarInfo.current_modifications, [] by default
current_modifications(car) ==
    IF "current_modifications" \in DOMAIN car THEN car.current_modifications
    ELSE << >>

\* validate_car_info: the number of entries of its errors list is zero
validate_car_info(car) ==
    /\ _validate_make(car.make)
    /\ _validate_model(car.make, car.model)
    /\ _validate_year(car.year)
    /\ _validate_engine_compatibility(car.make, car.engine_type)
    /\ \A k \in 1..Len(current_modifications(car)) :
           _validate_modification(current_modifications(car)[k])

\* the table local to _validate_max_budget
validator_budget_ranges ==
    [b \in BudgetRange |->
       CASE b = "budget"    -> <<500, 2000>>
         [] b = "moderate"  -> <<2000, 8000>>
         [] b = "premium"   -> <<8000, 20000>>
         [] b = "unlimited" -> <<20000, 100000>>]

_validate_max_budget(budget, budget_range) ==
    LET range == IF budget_range \in DOMAIN validator_budget_ranges
                 THEN validator_budget_ranges[budget_range] ELSE <<0, 0>>
    IN  range[1] <= budget /\ budget <= range[2]

validate_user_preferences(preferences) ==
    /\ preferences.primary_goals # << >>
    /\ \A k \in 1..Len(preferences.primary_goals) :
           preferences.primary_goals[k] \in DrivingGoal
    /\ preferences.budget_range \in BudgetRange
    /\ preferences.experience_level \in ExperienceLevel
    /\ preferences.max_budget # None =>
           _validate_max_budget(preferences.max_budget, preferences.budget_range)

(***************************************************************************)
(* main.py: CarTuningAgent.generate_recommendations.                       *)
(***************************************************************************)
AgentVehicles ==
    Vehicles \cup
    {[make |-> "bmw", model |-> "M340i", year |-> 2021, engine_type |-> "petrol",
      current_modifications |-> <<"Cold air intake">>],
     [make |-> "BMW", model |-> "Corolla", year |-> 2021, engine_type |-> "petrol"],
     [make |-> "Tesla", model |-> "Model 3", year |-> 2022, engine_type |-> "petrol"],
     [make |-> "Trabant", model |-> "601", year |-> 1989, engine_type |-> "petrol"],
     [make |-> "Toyota", model |-> "Supra", year |-> 2020, engine_type |-> "petrol",
      current_modifications |-> <<"Illegal straight pipe">>]}

AgentGoalLists ==
    {<< >>, <<"performance">>, <<"daily_comfort", "fuel_economy">>}

AgentPreferences ==
    [primary_goals : AgentGoalLists, experience_level : ExperienceLevel,
     budget_range : {"budget", "premium"}, max_budget : {None, 1000, 15000}]

AgentInit ==
    /\ engine = NewEngine
    /\ returned_reports = << >>
    /\ agent \in [pc : {"validate"}, car_valid : {FALSE}, pref_valid : {FALSE},
                  use_llm_enhancement : BOOLEAN, result : {NoReport}]
    /\ enhancer = NoEnhancer
    /\ parked = NoCall
    /\ lookup = NoLookup
    /\ car_info \in AgentVehicles
    /\ user_preferences \in AgentPreferences
    /\ pc = "idle"
    /\ max_budget = 0
    /\ goal_index = 1
    /\ all_recommendations = << >>
    /\ sorted_recommendations = << >>
    /\ rec_index = 1
    /\ filtered = << >>
    /\ total_cost = 0
    /\ admitted = << >>
    /\ report = NoReport

\* the engine called whatever the validator's verdicts
Validate_NoCheck ==
    /\ agent.pc = "validate"
    /\ agent' = [agent EXCEPT !.car_valid = validate_car_info(car_info),
                              !.pref_valid = validate_user_preferences(user_preferences),
                              !.pc = "engine"]
    /\ pc' = "start"
    /\ UNCHANGED <<engine, returned_reports, enhancer, parked, lookup, car_info, user_preferences,
                   max_budget, goal_index, all_recommendations,
                   sorted_recommendations, rec_index, filtered, total_cost,
                   admitted, report>>

\* lines 49-58: both validators are called, then either ValueError is raised
\* or the engine is called
Validate ==
    /\ agent.pc = "validate"
    /\ LET car_valid == validate_car_info(car_info)
           pref_valid == validate_user_preferences(user_preferences)
       IN  IF ~car_valid \/ ~pref_valid
           THEN /\ agent' = [agent EXCEPT !.car_valid = car_valid,
                                          !.pref_valid = pref_valid,
                                          !.pc = "raised"]
                /\ pc' = pc
           ELSE /\ agent' = [agent EXCEPT !.car_valid = car_valid,
                                          !.pref_valid = pref_valid,
                                          !.pc = "engine"]
                /\ pc' = "start"
    /\ UNCHANGED <<engine, returned_reports, enhancer, parked, lookup, car_info, user_preferences,
                   max_budget, goal_index, all_recommendations,
                   sorted_recommendations, rec_index, filtered, total_cost,
                   admitted, report>>

\* lines 61 and 70: no enhancement, the base report is returned
ReturnBaseReport ==
    /\ agent.pc = "engine"
    /\ pc = "done"
    /\ ~agent.use_llm_enhancement
    /\ agent' = [agent EXCEPT !.pc = "returned", !.result = report]
    /\ UNCHANGED <<engine, returned_reports, enhancer, parked, lookup>>
    /\ UNCHANGED call_vars

(***************************************************************************)
(* llm_enhancer.py.  A parsed JSON object is a record that holds the keys  *)
(* the response gave; where the code's behaviour depends on the type of a  *)
(* JSON value, the value carries its type.                                 *)
(***************************************************************************)
JObject(fields) == [type |-> "object", value |-> fields]
JArray(items) == [type |-> "array", value |-> items]
JNumber(n) == [type |-> "number", value |-> n]

\* dict.get(key, default)
Get(d, key, default) == IF key \in DOMAIN d THEN d[key] ELSE default

\* bool(v) of a parsed JSON value
Truthy(v) ==
    CASE v.type = "array" -> v.value # << >>
      [] v.type = "number" -> v.value # 0
      [] v.type = "object" -> DOMAIN v.value # {}

\* sep.join(items)
RECURSIVE Join(_, _)
Join(sep, items) ==
    IF items = << >> THEN ""
    ELSE IF Len(items) = 1 THEN items[1]
    ELSE items[1] \o sep \o Join(sep, Tail(items))

\* the responses of the remote model, after json.loads; the first is also
\* what lines 152-154 return when the response cannot be parsed
Analyses ==
    LET first == JObject([original_index |-> 0,
                          enhanced_description |-> "Remap matched to the stock turbo",
                          additional_benefits |-> <<"Smoother power delivery">>,
                          enhanced_safety_warnings |-> <<"Monitor intake temperature">>,
                          installation_tips |-> JArray(<<"Use a torque wrench",
                                                         "Check for leaks">>)])
        again == JObject([original_index |-> 0,
                          enhanced_description |-> "A second entry for the same index"])
        second == JObject([original_index |-> 1,
                           enhanced_description |-> "",
                           installation_tips |-> JArray(<< >>),
                           maintenance_considerations |-> JArray(<<"Inspect yearly">>)])
        unjoinable == JObject([original_index |-> 1,
                               additional_benefits |-> <<"Sharper turn-in">>,
                               installation_tips |-> JNumber(5)])
        unmatched == JObject([original_index |-> 99,
                              enhanced_description |-> "No such recommendation"])
        unindexed == JObject([enhanced_description |-> "No index given"])
        overall == [summary |-> "A balanced plan",
                    risk_assessment |-> "Moderate",
                    value_analysis |-> "",
                    professional_advice |-> "Use a certified installer"]
    IN  {[enhanced_recommendations |-> << >>, overall_analysis |-> << >>],
         [enhanced_recommendations |-> <<first, second>>, overall_analysis |-> overall],
         [enhanced_recommendations |-> <<second, first, again>>,
          overall_analysis |-> [summary |-> ""]],
         [enhanced_recommendations |-> <<first, unjoinable>>,
          overall_analysis |-> overall],
         [enhanced_recommendations |-> <<unmatched, unindexed, JNumber(7)>>],
         [overall_analysis |-> overall]}

\* lines 165-169: the first entry whose original_index is i; the search raises
\* AttributeError on an entry that is no object
RECURSIVE FindEnhancement(_, _)
FindEnhancement(entries, i) ==
    IF entries = << >> THEN [raised |-> FALSE, found |-> FALSE, enhancement |-> << >>]
    ELSE LET enh == Head(entries)
         IN  IF enh.type # "object"
             THEN [raised |-> TRUE, found |-> FALSE, enhancement |-> << >>]
             ELSE IF Get(enh.value, "original_index", None) = i
             THEN [raised |-> FALSE, found |-> TRUE, enhancement |-> enh.value]
             ELSE FindEnhancement(Tail(entries), i)

installation_tips(enhancement) ==
    Get(enhancement, "installation_tips", JArray(<< >>))

maintenance_considerations(enhancement) ==
    Get(enhancement, "maintenance_considerations", JArray(<< >>))

\* lines 188-191: str.join raises TypeError on a value that is no list of strings
JoinRaises(enhancement) ==
    LET tips == installation_tips(enhancement)
        maintenance == maintenance_considerations(enhancement)
    IN  /\ Truthy(tips) \/ Truthy(maintenance)
        /\ \/ Truthy(tips) /\ tips.type # "array"
           \/ Truthy(maintenance) /\ maintenance.type # "array"

\* lines 161-194 for the recommendation at index i: does the iteration raise
EnhancementRaises(enhanced_analysis, i) ==
    LET search == FindEnhancement(
                      Get(enhanced_analysis, "enhanced_recommendations", << >>), i)
    IN  \/ search.raised
        \/ search.found /\ JoinRaises(search.enhancement)

\* lines 171-194: the deep copy of rec with the enhancement applied
EnhancedRecommendation(rec, enhancement) ==
    LET description == Get(enhancement, "enhanced_description", "")
        tips == installation_tips(enhancement)
        maintenance == maintenance_considerations(enhancement)
    IN  [rec EXCEPT
           !.description = IF description # "" THEN description ELSE @,
           !.benefits = @ \o Get(enhancement, "additional_benefits", << >>),
           !.safety_warnings = @ \o Get(enhancement, "enhanced_safety_warnings", << >>),
           !.legal_considerations =
               IF Truthy(tips) \/ Truthy(maintenance)
               THEN SelectSeq(
                        @ \o <<IF Truthy(tips)
                               THEN "Installation: " \o Join("; ", tips.value)
                               ELSE "",
                               IF Truthy(maintenance)
                               THEN "Maintenance: " \o Join("; ", maintenance.value)
                               ELSE "">>,
                        LAMBDA item : item # "")
               ELSE @]

\* lines 161-196: one iteration of the loop
EnhancedCopy(rec, enhanced_analysis, i) ==
    LET search == FindEnhancement(
                      Get(enhanced_analysis, "enhanced_recommendations", << >>), i)
    IN  IF search.found THEN EnhancedRecommendation(rec, search.enhancement)
        ELSE rec

\* lines 203-213
EnhancedDisclaimer(disclaimer, enhanced_analysis) ==
    LET overall_analysis == Get(enhanced_analysis, "overall_analysis", << >>)
        Line(label, key) ==
            IF Get(overall_analysis, key, "") # ""
            THEN label \o overall_analysis[key] \o "\n" ELSE ""
    IN  IF DOMAIN overall_analysis = {} THEN disclaimer
        ELSE disclaimer \o "\n\nAI-Enhanced Analysis:\n"
             \o Line("Summary: ", "summary")
             \o Line("Risk Assessment: ", "risk_assessment")
             \o Line("Value Analysis: ", "value_analysis")
             \o Line("Professional Advice: ", "professional_advice")

\* main.py lines 61-63: enhance_recommendations is called with the base report
StartEnhancement ==
    /\ agent.pc = "engine"
    /\ pc = "done"
    /\ agent.use_llm_enhancement
    /\ agent' = [agent EXCEPT !.pc = "enhance"]
    /\ enhancer' = [NoEnhancer EXCEPT !.pc = "context"]
    /\ UNCHANGED <<engine, returned_reports, parked, lookup>>
    /\ UNCHANGED call_vars

\* line 39
PrepareContext ==
    /\ enhancer.pc = "context"
    /\ enhancer' = [enhancer EXCEPT !.pc = "remote"]
    /\ UNCHANGED <<engine, returned_reports, agent, parked, lookup>>
    /\ UNCHANGED call_vars

\* line 39 raises; lines 50-52 return the base report
PrepareContextFails ==
    /\ enhancer.pc = "context"
    /\ enhancer' = [enhancer EXCEPT !.pc = "returned", !.failure = "context",
                                    !.result = report]
    /\ UNCHANGED <<engine, returned_reports, agent, parked, lookup>>
    /\ UNCHANGED call_vars

\* line 42: the remote call answers; the response is parsed, or replaced by
\* the empty analysis (lines 143-154)
GenerateEnhancedAnalysis ==
    /\ enhancer.pc = "remote"
    /\ \E analysis \in Analyses :
           enhancer' = [enhancer EXCEPT !.pc = "apply",
                                        !.enhanced_analysis = analysis,
                                        !.i = 0,
                                        !.enhanced_recommendations = << >>]
    /\ UNCHANGED <<engine, returned_reports, agent, parked, lookup>>
    /\ UNCHANGED call_vars

\* line 141 raises; lines 50-52 return the base report
RemoteCallFails ==
    /\ enhancer.pc = "remote"
    /\ enhancer' = [enhancer EXCEPT !.pc = "returned", !.failure = "remote",
                                    !.result = report]
    /\ UNCHANGED <<engine, returned_reports, agent, parked, lookup>>
    /\ UNCHANGED call_vars

\* a shallow copy: the enhancement is written into the base report's
\* recommendation as well
ApplyEnhancement_InPlace ==
    /\ enhancer.pc = "apply"
    /\ enhancer.i < Len(report.recommendations)
    /\ ~EnhancementRaises(enhancer.enhanced_analysis, enhancer.i)
    /\ LET enhanced_rec == EnhancedCopy(report.recommendations[enhancer.i + 1],
                                        enhancer.enhanced_analysis, enhancer.i)
       IN  /\ enhancer' = [enhancer EXCEPT
                  !.enhanced_recommendations = Append(@, enhanced_rec),
                  !.i = @ + 1]
           /\ report' = [report EXCEPT
                  !.recommendations[enhancer.i + 1] = enhanced_rec]
    /\ UNCHANGED <<engine, returned_reports, agent, parked, lookup, car_info, user_preferences,
                   pc, max_budget, goal_index, all_recommendations,
                   sorted_recommendations, rec_index, filtered, total_cost,
                   admitted>>

\* only the recommendations the response has an entry for are kept
ApplyEnhancement_OnlyEnhanced ==
    /\ enhancer.pc = "apply"
    /\ enhancer.i < Len(report.recommendations)
    /\ ~EnhancementRaises(enhancer.enhanced_analysis, enhancer.i)
    /\ LET rec == report.recommendations[enhancer.i + 1]
           enhanced_rec == EnhancedCopy(rec, enhancer.enhanced_analysis, enhancer.i)
       IN  enhancer' = [enhancer EXCEPT
               !.enhanced_recommendations =
                   IF enhanced_rec # rec THEN Append(@, enhanced_rec) ELSE @,
               !.i = @ + 1]
    /\ UNCHANGED <<engine, returned_reports, agent, parked, lookup>>
    /\ UNCHANGED call_vars

\* lines 161-196: one iteration of the loop of _apply_enhancements
ApplyEnhancement ==
    /\ enhancer.pc = "apply"
    /\ enhancer.i < Len(report.recommendations)
    /\ ~EnhancementRaises(enhancer.enhanced_analysis, enhancer.i)
    /\ LET enhanced_rec == EnhancedCopy(report.recommendations[enhancer.i + 1],
                                        enhancer.enhanced_analysis, enhancer.i)
       IN  enhancer' = [enhancer EXCEPT
               !.enhanced_recommendations = Append(@, enhanced_rec),
               !.i = @ + 1]
    /\ UNCHANGED <<engine, returned_reports, agent, parked, lookup>>
    /\ UNCHANGED call_vars

\* what was enhanced so far is returned
ApplyEnhancementFails_ReturnsPartial ==
    /\ enhancer.pc = "apply"
    /\ enhancer.i < Len(report.recommendations)
    /\ EnhancementRaises(enhancer.enhanced_analysis, enhancer.i)
    /\ enhancer' = [enhancer EXCEPT
           !.pc = "returned", !.failure = "apply",
           !.result = [report EXCEPT
                          !.recommendations = enhancer.enhanced_recommendations]]
    /\ UNCHANGED <<engine, returned_reports, agent, parked, lookup>>
    /\ UNCHANGED call_vars

\* an iteration of the loop raises; lines 50-52 return the base report
ApplyEnhancementFails ==
    /\ enhancer.pc = "apply"
    /\ enhancer.i < Len(report.recommendations)
    /\ EnhancementRaises(enhancer.enhanced_analysis, enhancer.i)
    /\ enhancer' = [enhancer EXCEPT !.pc = "returned", !.failure = "apply",
                                    !.result = report]
    /\ UNCHANGED <<engine, returned_reports, agent, parked, lookup>>
    /\ UNCHANGED call_vars

\* lines 199-215 and line 47: the enhanced report is a deep copy of the base
\* report with the recommendations replaced and the disclaimer extended
FinishEnhancement ==
    /\ enhancer.pc = "apply"
    /\ enhancer.i = Len(report.recommendations)
    /\ enhancer' = [enhancer EXCEPT
           !.pc = "returned",
           !.result = [report EXCEPT
                          !.recommendations = enhancer.enhanced_recommendations,
                          !.disclaimer = EnhancedDisclaimer(
                                             @, enhancer.enhanced_analysis)]]
    /\ UNCHANGED <<engine, returned_reports, agent, parked, lookup>>
    /\ UNCHANGED call_vars

\* main.py lines 63-64: what enhance_recommendations returned is returned
ReturnEnhancedReport ==
    /\ agent.pc = "enhance"
    /\ enhancer.pc = "returned"
    /\ agent' = [agent EXCEPT !.pc = "returned", !.result = enhancer.result]
    /\ enhancer' = [enhancer EXCEPT !.pc = "done"]
    /\ UNCHANGED <<engine, returned_reports, parked, lookup>>
    /\ UNCHANGED call_vars

AgentNext ==
    \/ Validate
    \/ ResolveBudget
    \/ GenerateGoal
    \/ DeduplicateAndSort
    \/ FilterAcceptMax
    \/ FilterAcceptMin
    \/ FilterSkip
    \/ ReturnReport
    \/ ReturnBaseReport
    \/ StartEnhancement
    \/ PrepareContext
    \/ PrepareContextFails
    \/ GenerateEnhancedAnalysis
    \/ RemoteCallFails
    \/ ApplyEnhancement
    \/ ApplyEnhancementFails
    \/ FinishEnhancement
    \/ ReturnEnhancedReport

AgentSpec == AgentInit /\ [][AgentNext]_vars

(***************************************************************************)
(* Two calls of generate_recommendations on one engine instance, their     *)
(* steps interleaved.  Each call has its own arguments and locals; only    *)
(* the instance is shared.                                                 *)
(***************************************************************************)
\* lines 257-273 as a function of the list and the cap
RECURSIVE FilterFrom(_, _, _, _)
FilterFrom(recommendations, budget, kept, spent) ==
    IF recommendations = << >> THEN Take(kept, MaxRecommendations)
    ELSE LET rec == Head(recommendations)
         IN  IF spent + rec.cost_range.max <= budget
             THEN FilterFrom(Tail(recommendations), budget, Append(kept, rec),
                             spent + rec.cost_range.max)
             ELSE IF spent + rec.cost_range.min <= budget
             THEN FilterFrom(Tail(recommendations), budget, Append(kept, rec),
                             spent + rec.cost_range.min)
             ELSE FilterFrom(Tail(recommendations), budget, kept, spent)

_filter_by_budget(recommendations, budget) ==
    FilterFrom(recommendations, budget, << >>, 0)

\* lines 96-102 as a function of the goals
RECURSIVE AllGoalRecommendations(_, _, _, _, _)
AllGoalRecommendations(car, preferences, goals, budget, filters) ==
    IF goals = << >> THEN << >>
    ELSE _generate_goal_recommendations(car, preferences, Head(goals), budget, filters)
         \o AllGoalRecommendations(car, preferences, Tail(goals), budget, filters)

\* lines 87-134: the report of a call that runs from its entry to its return
\* with no step of another call in between
generate_recommendations(car, preferences) ==
    LET budget == PyOr(preferences.max_budget,
                       get_budget_range(preferences.budget_range).max)
        filters == engine.experience_filters[preferences.experience_level]
        unique_recommendations ==
            _deduplicate_recommendations(
                AllGoalRecommendations(car, preferences, preferences.primary_goals,
                                       budget, filters))
        filtered_recommendations ==
            _filter_by_budget(SortedDesc(unique_recommendations), budget)
    IN  [recommendations |-> filtered_recommendations,
         total_estimated_cost |-> _calculate_total_cost(filtered_recommendations),
         legal_summary |-> _generate_legal_summary(filtered_recommendations),
         disclaimer |-> _generate_disclaimer]

ConcPreferences ==
    {[primary_goals |-> <<"performance", "track_use">>,
      experience_level |-> "advanced", budget_range |-> "premium",
      max_budget |-> 15000],
     [primary_goals |-> <<"daily_comfort", "fuel_economy">>,
      experience_level |-> "beginner", budget_range |-> "budget",
      max_budget |-> 2000],
     [primary_goals |-> <<"performance">>,
      experience_level |-> "beginner", budget_range |-> "budget",
      max_budget |-> 1000],
     [primary_goals |-> <<"off_roading">>,
      experience_level |-> "intermediate", budget_range |-> "moderate",
      max_budget |-> None]}

ConcInit ==
    /\ engine = NewEngine
    /\ returned_reports = << >>
    /\ agent = DirectCall
    /\ enhancer = NoEnhancer
    /\ car_info \in Vehicles
    /\ user_preferences \in ConcPreferences
    /\ pc = "start"
    /\ max_budget = 0
    /\ goal_index = 1
    /\ all_recommendations = << >>
    /\ sorted_recommendations = << >>
    /\ rec_index = 1
    /\ filtered = << >>
    /\ total_cost = 0
    /\ admitted = << >>
    /\ report = NoReport
    /\ lookup = NoLookup
    /\ \E car \in Vehicles, preferences \in ConcPreferences :
           /\ <<car, preferences>> # <<car_info, user_preferences>>
           /\ parked = Call(car, preferences, "start", 0, 1, << >>, << >>, 1,
                            << >>, 0, << >>, NoReport)

\* the cap kept in one place for both calls
Switch_SharesBudget ==
    /\ parked.pc \notin {"none", "done"}
    /\ parked' = Call(car_info, user_preferences, pc, max_budget, goal_index,
                      all_recommendations, sorted_recommendations, rec_index,
                      filtered, total_cost, admitted, report)
    /\ car_info' = parked.car_info
    /\ user_preferences' = parked.user_preferences
    /\ pc' = parked.pc
    /\ max_budget' = max_budget
    /\ goal_index' = parked.goal_index
    /\ all_recommendations' = parked.all_recommendations
    /\ sorted_recommendations' = parked.sorted_recommendations
    /\ rec_index' = parked.rec_index
    /\ filtered' = parked.filtered
    /\ total_cost' = parked.total_cost
    /\ admitted' = parked.admitted
    /\ report' = parked.report
    /\ UNCHANGED <<engine, returned_reports, agent, enhancer, lookup>>

\* the running call is suspended and the other call takes its next steps
Switch ==
    /\ parked.pc \notin {"none", "done"}
    /\ parked' = Call(car_info, user_preferences, pc, max_budget, goal_index,
                      all_recommendations, sorted_recommendations, rec_index,
                      filtered, total_cost, admitted, report)
    /\ car_info' = parked.car_info
    /\ user_preferences' = parked.user_preferences
    /\ pc' = parked.pc
    /\ max_budget' = parked.max_budget
    /\ goal_index' = parked.goal_index
    /\ all_recommendations' = parked.all_recommendations
    /\ sorted_recommendations' = parked.sorted_recommendations
    /\ rec_index' = parked.rec_index
    /\ filtered' = parked.filtered
    /\ total_cost' = parked.total_cost
    /\ admitted' = parked.admitted
    /\ report' = parked.report
    /\ UNCHANGED <<engine, returned_reports, agent, enhancer, lookup>>

ConcNext ==
    \/ ResolveBudget
    \/ GenerateGoal
    \/ DeduplicateAndSort
    \/ FilterAcceptMax
    \/ FilterAcceptMin
    \/ FilterSkip
    \/ ReturnReport
    \/ Switch

ConcSpec == ConcInit /\ [][ConcNext]_vars

(***************************************************************************)
(* The same request made a second time with its goals in another order:    *)
(* the finished first call is kept aside and generate_recommendations runs *)
(* again on the same engine.                                               *)
(***************************************************************************)
\* the lists that hold the items of goals in another order
Reorderings(goals) ==
    {reordered \in [1..Len(goals) -> {goals[i] : i \in 1..Len(goals)}] :
        /\ reordered # goals
        /\ \E p \in [1..Len(goals) -> 1..Len(goals)] :
              /\ \A i, j \in 1..Len(goals) : i # j => p[i] # p[j]
              /\ \A i \in 1..Len(goals) : reordered[i] = goals[p[i]]}

CallPermuted ==
    /\ pc = "done"
    /\ parked = NoCall
    /\ \E reordered \in Reorderings(user_preferences.primary_goals) :
          user_preferences' = [user_preferences EXCEPT !.primary_goals = reordered]
    /\ parked' = Call(car_info, user_preferences, pc, max_budget, goal_index,
                      all_recommendations, sorted_recommendations, rec_index,
                      filtered, total_cost, admitted, report)
    /\ pc' = "start"
    /\ max_budget' = 0
    /\ goal_index' = 1
    /\ all_recommendations' = << >>
    /\ sorted_recommendations' = << >>
    /\ rec_index' = 1
    /\ filtered' = << >>
    /\ total_cost' = 0
    /\ admitted' = << >>
    /\ report' = NoReport
    /\ UNCHANGED <<engine, returned_reports, agent, enhancer, lookup, car_info>>

PermNext ==
    \/ Next
    \/ CallPermuted

\* the requests of Init that leave the cap to the tier or set it to 15000
PermInit ==
    /\ Init
    /\ user_preferences.max_budget \in {None, 15000}

PermSpec == PermInit /\ [][PermNext]_vars

(***************************************************************************)
(* knowledge_base.py: the four lookups as functions of their key.  The     *)
(* keys are the keys of the four tables and some no table has.             *)
(***************************************************************************)
compatibility_matrix ==
    [ecu_remapping |-> <<"air_intake", "exhaust_system">>,
     exhaust_system |-> <<"ecu_remapping", "air_intake">>,
     air_intake |-> <<"ecu_remapping", "exhaust_system">>,
     suspension |-> <<"tires_wheels", "brake_system">>,
     tires_wheels |-> <<"suspension", "brake_system">>,
     brake_system |-> <<"suspension", "tires_wheels">>,
     cosmetic |-> << >>]

safety_guidelines ==
    [general |-> <<"Always consult with professionals for major modifications",
                   "Ensure all modifications meet local safety standards",
                   "Test modifications in safe conditions before regular use",
                   "Keep original parts for potential reversion">>,
     performance |-> <<"Ensure supporting modifications are in place",
                       "Monitor engine parameters after ECU modifications",
                       "Use appropriate fuel and oil for modified engines",
                       "Regular maintenance is critical for modified vehicles">>,
     suspension |-> <<"Professional alignment required after suspension modifications",
                      "Check ground clearance after lowering",
                      "Ensure proper shock/spring matching",
                      "Test handling characteristics before aggressive driving">>,
     brakes |-> <<"Professional installation recommended for brake modifications",
                  "Proper bleeding of brake system is critical",
                  "Bed-in new brake pads properly",
                  "Test brake performance before regular use">>]

get_compatible_modifications(modification) ==
    IF modification \in DOMAIN compatibility_matrix
    THEN compatibility_matrix[modification]
    ELSE << >>

get_safety_guidelines(category) ==
    IF category \in DOMAIN safety_guidelines THEN safety_guidelines[category]
    ELSE << >>

UnknownKeys == {"", "turbocharger", "Suspension", "luxury", "nitrous"}

LookupKeys ==
    TuningCategory \cup BudgetRange \cup DOMAIN safety_guidelines \cup UnknownKeys

LookupOperations ==
    {"get_tuning_options_for_category", "get_compatible_modifications",
     "get_budget_range", "get_safety_guidelines"}

LookupInit ==
    /\ engine = NewEngine
    /\ returned_reports = << >>
    /\ agent = DirectCall
    /\ enhancer = NoEnhancer
    /\ parked = NoCall
    /\ lookup \in [operation : LookupOperations, key : LookupKeys,
                   returned : {FALSE}, result : {<< >>}]
    /\ car_info = NoCall.car_info
    /\ user_preferences = NoCall.user_preferences
    /\ pc = "none"
    /\ max_budget = 0
    /\ goal_index = 1
    /\ all_recommendations = << >>
    /\ sorted_recommendations = << >>
    /\ rec_index = 1
    /\ filtered = << >>
    /\ total_cost = 0
    /\ admitted = << >>
    /\ report = NoReport

LookupTuningOptions ==
    /\ lookup.operation = "get_tuning_options_for_category"
    /\ ~lookup.returned
    /\ lookup' = [lookup EXCEPT !.returned = TRUE,
                                !.result = get_tuning_options_for_category(lookup.key)]
    /\ UNCHANGED <<engine, returned_reports, agent, enhancer, parked>>
    /\ UNCHANGED call_vars

LookupCompatibleModifications ==
    /\ lookup.operation = "get_compatible_modifications"
    /\ ~lookup.returned
    /\ lookup' = [lookup EXCEPT !.returned = TRUE,
                                !.result = get_compatible_modifications(lookup.key)]
    /\ UNCHANGED <<engine, returned_reports, agent, enhancer, parked>>
    /\ UNCHANGED call_vars

LookupBudgetRange ==
    /\ lookup.operation = "get_budget_range"
    /\ ~lookup.returned
    /\ lookup' = [lookup EXCEPT !.returned = TRUE,
                                !.result = get_budget_range(lookup.key)]
    /\ UNCHANGED <<engine, returned_reports, agent, enhancer, parked>>
    /\ UNCHANGED call_vars

LookupSafetyGuidelines ==
    /\ lookup.operation = "get_safety_guidelines"
    /\ ~lookup.returned
    /\ lookup' = [lookup EXCEPT !.returned = TRUE,
                                !.result = get_safety_guidelines(lookup.key)]
    /\ UNCHANGED <<engine, returned_reports, agent, enhancer, parked>>
    /\ UNCHANGED call_vars

LookupNext ==
    \/ LookupTuningOptions
    \/ LookupCompatibleModifications
    \/ LookupBudgetRange
    \/ LookupSafetyGuidelines

LookupSpec == LookupInit /\ [][LookupNext]_vars

(***************************************************************************)
(* Vocabulary of the properties.                                           *)
(***************************************************************************)
Returned == pc = "done"

Emitted == report.recommendations

\* the branch of _filter_by_budget that admitted the i-th emitted
\* recommendation (the report is a prefix of filtered)
AdmittedBy(i) == admitted[i]

\* what _filter_by_budget has added to total_cost for the first k accepted items
RECURSIVE PrefixSpent(_)
PrefixSpent(k) ==
    IF k = 0 THEN 0
    ELSE PrefixSpent(k - 1)
         + (IF admitted[k] = "max" THEN filtered[k].cost_range.max
                                   ELSE filtered[k].cost_range.min)

\* number of candidates the budget loop has passed over without accepting
SkippedCount == (rec_index - 1) - Len(filtered)

\* the greedy selection over a list, every candidate decided in turn: what
\* it accepts and what it has counted as spent
RECURSIVE GreedySelection(_, _)
GreedySelection(candidates, cap) ==
    IF candidates = << >> THEN [accepted |-> << >>, spent |-> 0]
    ELSE LET before == GreedySelection(SubSeq(candidates, 1, Len(candidates) - 1), cap)
             candidate == candidates[Len(candidates)]
         IN  IF before.spent + candidate.cost_range.max <= cap
             THEN [accepted |-> Append(before.accepted, candidate),
                   spent |-> before.spent + candidate.cost_range.max]
             ELSE IF before.spent + candidate.cost_range.min <= cap
             THEN [accepted |-> Append(before.accepted, candidate),
                   spent |-> before.spent + candidate.cost_range.min]
             ELSE before

\* the greedy selection that stops accepting once limit candidates have been
\* accepted
RECURSIVE StoppingGreedy(_, _, _, _, _)
StoppingGreedy(candidates, cap, limit, accepted, spent) ==
    IF candidates = << >> \/ Len(accepted) = limit THEN accepted
    ELSE LET candidate == Head(candidates)
         IN  IF spent + candidate.cost_range.max <= cap
             THEN StoppingGreedy(Tail(candidates), cap, limit,
                                 Append(accepted, candidate),
                                 spent + candidate.cost_range.max)
             ELSE IF spent + candidate.cost_range.min <= cap
             THEN StoppingGreedy(Tail(candidates), cap, limit,
                                 Append(accepted, candidate),
                                 spent + candidate.cost_range.min)
             ELSE StoppingGreedy(Tail(candidates), cap, limit, accepted, spent)

\* the catalog entry a recommendation was made from
CatalogOption(rec) ==
    LET category_options == tuning_options[rec.category]
    IN  category_options[CHOOSE i \in 1..Len(category_options) :
                             category_options[i].name = rec.name]

\* base * 1.2 * (0.7 if beginner and high) * (1.1 if budget tier and
\* cost max < 1000), in units of 1 / ScoreUnit, before the cap
UncappedScore(rec, preferences) ==
    LET base == CatalogOption(rec).priority_score
        risk == IF preferences.experience_level = "beginner"
                   /\ CatalogOption(rec).safety_level = "high"
                THEN 7 ELSE 10
        cheap == IF preferences.budget_range = "budget"
                    /\ CatalogOption(rec).cost_range.max < 1000
                 THEN 11 ELSE 10
    IN  (base * 12 * risk * cheap) \div 1000

\* position of x in list (list holds x)
IndexOf(x, list) == CHOOSE i \in 1..Len(list) : list[i] = x /\ \A j \in 1..(i - 1) : list[j] # x

\* where the loops of generate_recommendations and
\* _generate_goal_recommendations first come to a recommendation: the first
\* goal whose priority list holds its category, the category's place in that
\* list, the option's place in the catalog
FirstAppearance(rec, goals) ==
    LET g == CHOOSE i \in 1..Len(goals) :
                 /\ InList(rec.category, engine.goal_priorities[goals[i]])
                 /\ \A j \in 1..(i - 1) :
                        ~InList(rec.category, engine.goal_priorities[goals[j]])
        category_options == tuning_options[rec.category]
    IN  <<g, IndexOf(rec.category, engine.goal_priorities[goals[g]]),
          CHOOSE k \in 1..Len(category_options) : category_options[k].name = rec.name>>

\* a comes before b in the order of the three nested loops
AppearsBefore(a, b) ==
    \/ a[1] < b[1]
    \/ a[1] = b[1] /\ a[2] < b[2]
    \/ a[1] = b[1] /\ a[2] = b[2] /\ a[3] < b[3]

\* the sum of the bound ("min" or "max") of the first k items' cost ranges
RECURSIVE CostOfFirst(_, _, _)
CostOfFirst(k, recommendations, bound) ==
    IF k = 0 THEN 0
    ELSE CostOfFirst(k - 1, recommendations, bound)
         + recommendations[k].cost_range[bound]

\* the (category, name, score) triples of a list of recommendations
Triples(recommendations) ==
    {<<recommendations[i].category, recommendations[i].name,
       recommendations[i].priority_score>> : i \in 1..Len(recommendations)}

\* the scores of a list of recommendations, in its order
Scores(recommendations) ==
    [i \in 1..Len(recommendations) |-> recommendations[i].priority_score]

\* the table a lookup reads
TableOf(operation) ==
    CASE operation = "get_tuning_options_for_category" -> engine.tuning_options
      [] operation = "get_compatible_modifications" -> compatibility_matrix
      [] operation = "get_budget_range" -> budget_ranges
      [] operation = "get_safety_guidelines" -> safety_guidelines

UnknownTo(operation, key) == key \notin DOMAIN TableOf(operation)

\* the report as lines 108-134 built it from the accepted recommendations
EngineReport ==
    [recommendations |-> Take(filtered, MaxRecommendations),
     total_estimated_cost |->
         _calculate_total_cost(Take(filtered, MaxRecommendations)),
     legal_summary |-> _generate_legal_summary(Take(filtered, MaxRecommendations)),
     disclaimer |-> _generate_disclaimer]

\* CarTuningAgent.generate_recommendations has returned a report
AgentReturned == agent.pc = "returned"

ScenarioA ==
    /\ car_info = [make |-> "BMW", model |-> "3 Series", year |-> 2021,
                   engine_type |-> "petrol"]
    /\ user_preferences = [primary_goals |-> <<"performance", "track_use">>,
                           budget_range |-> "premium",
                           experience_level |-> "advanced",
                           max_budget |-> 15000]

ScenarioC ==
    /\ car_info.engine_type = "petrol"
    /\ user_preferences = [primary_goals |-> <<"daily_comfort", "fuel_economy">>,
                           budget_range |-> "budget",
                           experience_level |-> "beginner",
                           max_budget |-> 2000]

(***************************************************************************)
(* C1: every emitted recommendation costs at most the spending cap the     *)
(* engine resolved (local max_budget), whatever the request.               *)
(***************************************************************************)
C1_SingleItemCap ==
    \A i \in 1..Len(Emitted) : Emitted[i].cost_range.max <= max_budget

\* a report was returned in which an item sits exactly at the cap while the
\* catalog offered the goals dearer options
C1_Witness ==
    /\ Returned
    /\ \E i \in 1..Len(Emitted) : Emitted[i].cost_range.max = max_budget
    /\ \E i \in 1..Len(user_preferences.primary_goals) :
         \E j \in 1..Len(goal_priorities[user_preferences.primary_goals[i]]) :
           LET options == tuning_options[goal_priorities[user_preferences.primary_goals[i]][j]]
           IN  \E k \in 1..Len(options) : options[k].cost_range.max > max_budget

(***************************************************************************)
(* C2: in the greedy budget selection the running total (cost max of an    *)
(* item accepted normally, cost min of one accepted by the fallback) is    *)
(* the value of total_cost and stays within the cap at every prefix of     *)
(* the accepted sequence.                                                  *)
(***************************************************************************)
C2_RunningSpentWithinCap ==
    pc \in {"budget", "done"} =>
        /\ Len(admitted) = Len(filtered)
        /\ total_cost = PrefixSpent(Len(filtered))
        /\ \A k \in 0..Len(filtered) : PrefixSpent(k) <= max_budget

\* the loop has accepted by both branches and has skipped a candidate
C2_Witness ==
    /\ pc = "budget"
    /\ \E i \in 1..Len(admitted) : admitted[i] = "max"
    /\ \E i \in 1..Len(admitted) : admitted[i] = "min"
    /\ SkippedCount > 0

(***************************************************************************)
(* C3 as stated: in Scenario C the report's total_estimated_cost max is    *)
(* at most 2000.                                                           *)
(***************************************************************************)
C3_Original ==
    (ScenarioC /\ Returned) => report.total_estimated_cost.max <= 2000

(***************************************************************************)
(* C3 amended: in Scenario C the report has four recommendations, the      *)
(* last two admitted by the min-cost fallback; total_estimated_cost max    *)
(* is 3500, total_estimated_cost min is 1000 and the running total of the  *)
(* selection is 1950, the latter two within the cap of 2000.               *)
(***************************************************************************)
C3_ScenarioCTotals ==
    (ScenarioC /\ Returned) =>
        /\ max_budget = 2000
        /\ admitted = <<"max", "max", "min", "min">>
        /\ report.total_estimated_cost.max = 3500
        /\ report.total_estimated_cost.min = 1000
        /\ total_cost = 1950
        /\ total_cost <= max_budget
        /\ report.total_estimated_cost.min <= max_budget

C3_Witness ==
    /\ ScenarioC
    /\ Returned
    /\ Len(Emitted) = 4
    /\ Emitted[3].name = "Lightweight Wheels"

(***************************************************************************)
(* C4: the cumulative cost max of the emitted recommendations exceeds the  *)
(* cap only if an emitted recommendation was admitted by the min-cost      *)
(* fallback.                                                               *)
(***************************************************************************)
C4_OverCapOnlyByFallback ==
    Returned =>
        (report.total_estimated_cost.max > max_budget
            => \E i \in 1..Len(Emitted) : AdmittedBy(i) = "min")

\* both cases occur in one report shape or the other: here the total is over
\* the cap
C4_Witness ==
    /\ Returned
    /\ report.total_estimated_cost.max > max_budget
    /\ \E i \in 1..Len(Emitted) : AdmittedBy(i) = "max"

(***************************************************************************)
(* C5 as stated: for experience level intermediate or advanced the         *)
(* safety-level ceiling rejects no option, so once the goal loop has run,  *)
(* every option of every category of the requested goals that passes the   *)
(* priority-score, budget and engine checks has been generated, whatever   *)
(* its safety level.                                                       *)
(***************************************************************************)
C5_CeilingNeverRejects ==
    LET filters == experience_filters[user_preferences.experience_level]
        goals   == user_preferences.primary_goals
    IN  (/\ user_preferences.experience_level \in {"intermediate", "advanced"}
         /\ pc \in {"budget", "done"})
        => \A g \in 1..Len(goals) :
             \A c \in 1..Len(goal_priorities[goals[g]]) :
               LET category == goal_priorities[goals[g]][c]
                   options  == get_tuning_options_for_category(category)
               IN  \A k \in 1..Len(options) :
                     (/\ options[k].safety_level \in SafetyLevel
                      /\ options[k].priority_score <= filters.max_priority_score
                      /\ options[k].cost_range.max <= max_budget
                      /\ _is_compatible_with_engine(options[k], car_info.engine_type))
                     => \E r \in 1..Len(all_recommendations) :
                          /\ all_recommendations[r].category = category
                          /\ all_recommendations[r].name = options[k].name

(***************************************************************************)
(* C6: no two recommendations of a report share the same (category, name)  *)
(* pair.                                                                   *)
(***************************************************************************)
C6_NoDuplicatePairs ==
    \A i, j \in 1..Len(Emitted) :
        (/\ Emitted[i].category = Emitted[j].category
         /\ Emitted[i].name = Emitted[j].name) => i = j

\* a report was returned for goals that generated the same option twice
C6_Witness ==
    /\ Returned
    /\ Len(Emitted) >= 2
    /\ \E i, j \in 1..Len(all_recommendations) :
         /\ i < j
         /\ all_recommendations[i].category = all_recommendations[j].category
         /\ all_recommendations[i].name = all_recommendations[j].name
         /\ \E e \in 1..Len(Emitted) : Emitted[e].name = all_recommendations[i].name

(***************************************************************************)
(* C7: the emitted recommendations are in non-increasing order of their    *)
(* adjusted priority score.                                                *)
(***************************************************************************)
C7_SortedByScore ==
    \A i, j \in 1..Len(Emitted) :
        i < j => Emitted[i].priority_score >= Emitted[j].priority_score

\* a report of several scores was returned although generation order was not
\* score order and the budget loop skipped a candidate
C7_Witness ==
    /\ Returned
    /\ Len(Emitted) >= 3
    /\ Emitted[1].priority_score > Emitted[Len(Emitted)].priority_score
    /\ \E i, j \in 1..Len(all_recommendations) :
         /\ i < j
         /\ all_recommendations[i].priority_score < all_recommendations[j].priority_score
    /\ SkippedCount > 0

(***************************************************************************)
(* C8: for an electric vehicle no emitted recommendation has a name        *)
(* containing "ECU".                                                       *)
(***************************************************************************)
C8_ElectricNoECU ==
    car_info.engine_type = "electric" =>
        \A i \in 1..Len(Emitted) : ~StrContains("ECU", Emitted[i].name)

\* an electric vehicle got a non-empty report for a request whose goals reach
\* an option named ECU that passes the experience and budget filters
C8_Witness ==
    /\ Returned
    /\ car_info.engine_type = "electric"
    /\ Emitted # << >>
    /\ \E g \in 1..Len(user_preferences.primary_goals) :
         \E c \in 1..Len(goal_priorities[user_preferences.primary_goals[g]]) :
           LET options == tuning_options[goal_priorities[user_preferences.primary_goals[g]][c]]
           IN  \E k \in 1..Len(options) :
                 /\ StrContains("ECU", options[k].name)
                 /\ _passes_experience_filters(
                        options[k], experience_filters[user_preferences.experience_level])
                 /\ options[k].cost_range.max <= max_budget

(***************************************************************************)
(* C9: for experience level beginner every emitted recommendation has      *)
(* safety level low or medium.                                             *)
(***************************************************************************)
C9_BeginnerNoHighRisk ==
    user_preferences.experience_level = "beginner" =>
        \A i \in 1..Len(Emitted) : Emitted[i].safety_level \in {"low", "medium"}

\* a beginner got a non-empty report for goals whose categories hold a
\* high-risk option within the cap
C9_Witness ==
    /\ Returned
    /\ user_preferences.experience_level = "beginner"
    /\ Emitted # << >>
    /\ \E g \in 1..Len(user_preferences.primary_goals) :
         \E c \in 1..Len(goal_priorities[user_preferences.primary_goals[g]]) :
           LET options == tuning_options[goal_priorities[user_preferences.primary_goals[g]][c]]
           IN  \E k \in 1..Len(options) :
                 /\ options[k].safety_level = "high"
                 /\ options[k].cost_range.max <= max_budget

(***************************************************************************)
(* C10: in Scenario A the report has at least one recommendation and its   *)
(* total_estimated_cost max is at most 15000.                              *)
(***************************************************************************)
C10_ScenarioA ==
    (ScenarioA /\ Returned) =>
        /\ Len(Emitted) >= 1
        /\ report.total_estimated_cost.max <= 15000

C10_Witness ==
    /\ ScenarioA
    /\ Returned
    /\ max_budget = 15000
    /\ report.total_estimated_cost.max > 0

(***************************************************************************)
(* C11 as stated: the resolved spending cap is the request's max_budget    *)
(* whenever that field is present, 0 included, and the budget tier's upper *)
(* bound only when it is absent.                                           *)
(***************************************************************************)
C11_CapIsMaxBudgetWhenPresent ==
    pc # "start" =>
        max_budget = (IF user_preferences.max_budget # None
                      THEN user_preferences.max_budget
                      ELSE get_budget_range(user_preferences.budget_range).max)

(***************************************************************************)
(* C12: whatever the candidate list and the cap, the returned report holds *)
(* at most ten recommendations: those _filter_by_budget accepted first.    *)
(***************************************************************************)
C12_AtMostTen ==
    Returned =>
        /\ Len(Emitted) <= MaxRecommendations
        /\ Emitted = SubSeq(filtered, 1, Len(Emitted))

\* more than ten candidates were accepted and ten of them were returned
C12_Witness ==
    /\ Returned
    /\ Len(filtered) > MaxRecommendations
    /\ Len(Emitted) = MaxRecommendations

(***************************************************************************)
(* C17: a request with an empty primary_goals list is answered with a      *)
(* complete report: no recommendation, total cost min = max = 0 USD, and   *)
(* the disclaimer.                                                         *)
(***************************************************************************)
C17_EmptyGoalsEmptyReport ==
    (user_preferences.primary_goals = << >> /\ Returned) =>
        /\ Emitted = << >>
        /\ report.total_estimated_cost = [min |-> 0, max |-> 0, currency |-> "USD"]
        /\ report.disclaimer = _generate_disclaimer

C17_Witness ==
    /\ user_preferences.primary_goals = << >>
    /\ Returned
    /\ report # NoReport

(***************************************************************************)
(* C18 as stated: a call with an empty goal list never returns a report.   *)
(***************************************************************************)
C18_Original ==
    user_preferences.primary_goals = << >> => ~Returned

(***************************************************************************)
(* C18, amended: the engine has no error path.  With an empty goal list    *)
(* every step up to the return is taken without a check of the goals: the  *)
(* goal loop is skipped, and the call goes on to the budget filter and to  *)
(* the return.                                                             *)
(***************************************************************************)
C18_EngineNeverRejects ==
    (user_preferences.primary_goals = << >> /\ ~Returned) =>
        /\ ENABLED Next
        /\ ~ENABLED GenerateGoal

\* the goal loop was passed with no goal and the budget filter was entered
C18_Witness ==
    /\ user_preferences.primary_goals = << >>
    /\ pc = "budget"
    /\ sorted_recommendations = << >>

(***************************************************************************)
(* C13: a second call with the same arguments on the same engine instance  *)
(* returns the report the first call returned (same recommendations in the *)
(* same order, same scores, same totals), and the instance's tables are    *)
(* what they were when the engine was built.                               *)
(***************************************************************************)
C13_SecondCallSameReport ==
    (returned_reports # << >> /\ Returned) =>
        /\ report = returned_reports[1]
        /\ engine = NewEngine

\* a second call has returned a report with recommendations
C13_Witness ==
    /\ returned_reports # << >>
    /\ Returned
    /\ Len(Emitted) >= 2
    /\ returned_reports[1].recommendations # << >>

(***************************************************************************)
(* C19: in CarTuningAgent.generate_recommendations the engine is entered   *)
(* only after both validators returned valid; when either returned invalid *)
(* (an empty goal list included) ValueError is raised, the engine is never *)
(* entered, the enhancer is never called and no report exists.             *)
(***************************************************************************)
C19_ValidationGatesEngine ==
    /\ (pc # "idle" \/ enhancer.pc # "idle") =>
           /\ agent.car_valid /\ agent.pref_valid
           /\ user_preferences.primary_goals # << >>
    /\ (agent.pc # "validate" /\ ~(agent.car_valid /\ agent.pref_valid)) =>
           /\ agent.pc = "raised"
           /\ pc = "idle"
           /\ enhancer.pc = "idle"
           /\ report = NoReport
           /\ agent.result = NoReport
    /\ (agent.pc # "validate" /\ user_preferences.primary_goals = << >>) =>
           ~agent.pref_valid

\* a request was rejected for its vehicle alone, and another run entered the
\* engine
C19_Witness ==
    /\ agent.pc = "raised"
    /\ ~agent.car_valid
    /\ agent.pref_valid

(***************************************************************************)
(* C14: when a step of the enhancement raises (preparing the context, the  *)
(* remote call, applying the enhancements), enhance_recommendations        *)
(* returns the base report, which is still the report the engine built,    *)
(* and CarTuningAgent.generate_recommendations returns it and raises       *)
(* nothing.                                                                *)
(***************************************************************************)
C14_FailureReturnsBaseReport ==
    enhancer.failure # "none" =>
        /\ enhancer.result = report
        /\ report = EngineReport
        /\ agent.pc \in {"enhance", "returned"}
        /\ AgentReturned => agent.result = EngineReport

\* the loop of _apply_enhancements raised after it had enhanced a
\* recommendation, and the agent returned
C14_Witness ==
    /\ AgentReturned
    /\ enhancer.failure = "apply"
    /\ enhancer.enhanced_recommendations # << >>
    /\ enhancer.enhanced_recommendations[1] # report.recommendations[1]

(***************************************************************************)
(* C15: no step taken while the enhancement runs changes the base report:  *)
(* its recommendations' description, benefits, safety_warnings and         *)
(* legal_considerations and its disclaimer stay as the engine built them.  *)
(***************************************************************************)
C15_BaseReportUntouched ==
    [][agent.pc = "enhance" => report' = report]_vars

\* an enhanced copy differs from the base recommendation in each of the four
\* fields, and the enhanced disclaimer from the base one
C15_Witness ==
    /\ AgentReturned
    /\ enhancer.failure = "none"
    /\ Len(agent.result.recommendations) >= 1
    /\ agent.result.recommendations[1].description # report.recommendations[1].description
    /\ agent.result.recommendations[1].benefits # report.recommendations[1].benefits
    /\ agent.result.recommendations[1].safety_warnings
           # report.recommendations[1].safety_warnings
    /\ agent.result.recommendations[1].legal_considerations
           # report.recommendations[1].legal_considerations
    /\ agent.result.disclaimer # report.disclaimer
    /\ report = EngineReport

(***************************************************************************)
(* C16: whatever the response of the remote model, the report the agent    *)
(* returns after the enhancement has as many recommendations as the base   *)
(* report, in the same order, each with the category, name, cost_range and *)
(* priority_score of the base one, and the same total_estimated_cost.      *)
(***************************************************************************)
C16_EnhancementKeepsStructure ==
    (AgentReturned /\ agent.use_llm_enhancement) =>
        /\ Len(agent.result.recommendations) = Len(report.recommendations)
        /\ \A k \in 1..Len(report.recommendations) :
               /\ agent.result.recommendations[k].category
                      = report.recommendations[k].category
               /\ agent.result.recommendations[k].name
                      = report.recommendations[k].name
               /\ agent.result.recommendations[k].cost_range
                      = report.recommendations[k].cost_range
               /\ agent.result.recommendations[k].priority_score
                      = report.recommendations[k].priority_score
        /\ agent.result.total_estimated_cost = report.total_estimated_cost

\* an enhanced report of at least three recommendations, the second enhanced
\* and the third not
C16_Witness ==
    /\ AgentReturned
    /\ enhancer.failure = "none"
    /\ Len(agent.result.recommendations) >= 3
    /\ agent.result.recommendations[2] # report.recommendations[2]
    /\ agent.result.recommendations[3] = report.recommendations[3]

(***************************************************************************)
(* C20: two calls with different arguments whose steps interleave on one   *)
(* engine instance each return the report the call returns when it runs    *)
(* alone, and the catalog, the goal-priority table and the experience-     *)
(* filter table of the instance are afterwards what they were.             *)
(***************************************************************************)
C20_InterleavedCallsIndependent ==
    /\ engine = NewEngine
    /\ pc = "done" => report = generate_recommendations(car_info, user_preferences)
    /\ parked.pc = "done" =>
           parked.report = generate_recommendations(parked.car_info,
                                                    parked.user_preferences)

\* both calls have returned, under different caps and with different reports
C20_Witness ==
    /\ pc = "done"
    /\ parked.pc = "done"
    /\ report # parked.report
    /\ Len(report.recommendations) >= 2
    /\ Len(parked.report.recommendations) >= 2
    /\ max_budget # parked.max_budget

(***************************************************************************)
(* C21 as stated: every lookup with a key its table does not have returns  *)
(* an empty collection.                                                    *)
(***************************************************************************)
C21_Original ==
    (lookup.returned /\ UnknownTo(lookup.operation, lookup.key)) =>
        DOMAIN lookup.result = {}

(***************************************************************************)
(* C21, amended: a lookup with a key its table does not have returns the   *)
(* empty list from get_tuning_options_for_category,                        *)
(* get_compatible_modifications and get_safety_guidelines, and the         *)
(* interval with min = 0 and max = 0 from get_budget_range; a key the      *)
(* table has gets the table's entry.                                       *)
(***************************************************************************)
C21_UnknownKeyDefaults ==
    lookup.returned =>
        IF UnknownTo(lookup.operation, lookup.key)
        THEN IF lookup.operation = "get_budget_range"
             THEN lookup.result = [min |-> 0, max |-> 0]
             ELSE lookup.result = << >>
        ELSE lookup.result = TableOf(lookup.operation)[lookup.key]

\* get_budget_range has answered for a key that is no budget tier
C21_Witness ==
    /\ lookup.returned
    /\ lookup.operation = "get_budget_range"
    /\ lookup.key = "luxury"
    /\ lookup.result.max = 0

(***************************************************************************)
(* C22: the budget loop decides every candidate of the sorted list in      *)
(* order: accepted at its maximum cost if that fits what is left of the    *)
(* cap, else accepted at its minimum cost if that fits, else skipped, and  *)
(* the loop goes on to the next candidate; it returns only after the last  *)
(* candidate.                                                              *)
(***************************************************************************)
C22_GreedyDecidesEveryCandidate ==
    pc \in {"budget", "done"} =>
        LET decided == GreedySelection(
                           SubSeq(sorted_recommendations, 1, rec_index - 1),
                           max_budget)
        IN  /\ filtered = decided.accepted
            /\ total_cost = decided.spent
            /\ Returned => rec_index = Len(sorted_recommendations) + 1

\* a candidate was skipped and a later one of the list was accepted
C22_Witness ==
    /\ Returned
    /\ \E i, j \in 1..Len(sorted_recommendations) :
           /\ i < j
           /\ ~InList(sorted_recommendations[i], filtered)
           /\ InList(sorted_recommendations[j], filtered)

(***************************************************************************)
(* C23: for every sorted candidate list and cap, the list _filter_by_budget *)
(* returns (it accepts past ten candidates and keeps the first ten) is the *)
(* list of the greedy selection that stops accepting at the tenth          *)
(* acceptance, in acceptance order.                                        *)
(***************************************************************************)
C23_TruncationEqualsEarlyStop ==
    Returned =>
        Emitted = StoppingGreedy(sorted_recommendations, max_budget,
                                 MaxRecommendations, << >>, 0)

\* the loop accepted at least two candidates after the tenth, and counted
\* their cost
C23_Witness ==
    /\ Returned
    /\ Len(filtered) >= MaxRecommendations + 2
    /\ total_cost > PrefixSpent(MaxRecommendations)
    /\ Emitted # filtered

(***************************************************************************)
(* C24: every recommendation the engine generates, and so every one it     *)
(* emits, carries the score min(10, base * 1.2 * (0.7 if beginner and high *)
(* risk) * (1.1 if budget tier and maximum cost under 1000)), which lies   *)
(* between 0 and 10.                                                       *)
(***************************************************************************)
C24_AdjustedScore ==
    /\ \A i \in 1..Len(all_recommendations) :
          LET rec == all_recommendations[i]
          IN  rec.priority_score = Min2(10 * ScoreUnit, UncappedScore(rec, user_preferences))
    /\ \A i \in 1..Len(Emitted) :
          /\ Emitted[i].priority_score >= 0
          /\ Emitted[i].priority_score <= 10 * ScoreUnit
          /\ Emitted[i].priority_score
                = Min2(10 * ScoreUnit, UncappedScore(Emitted[i], user_preferences))

\* an emitted score is cut to 10 while the budget tier is in force
C24_Witness ==
    /\ Returned
    /\ user_preferences.budget_range = "budget"
    /\ \E i \in 1..Len(Emitted) :
          /\ UncappedScore(Emitted[i], user_preferences) > 10 * ScoreUnit
          /\ Emitted[i].priority_score = 10 * ScoreUnit

(***************************************************************************)
(* C25: two emitted recommendations with the same score stand in the order *)
(* in which the goal, category, option loops first reached them.           *)
(***************************************************************************)
C25_TiesKeepFirstAppearanceOrder ==
    Returned =>
        \A i, j \in 1..Len(Emitted) :
            (i < j /\ Emitted[i].priority_score = Emitted[j].priority_score)
                => AppearsBefore(
                       FirstAppearance(Emitted[i], user_preferences.primary_goals),
                       FirstAppearance(Emitted[j], user_preferences.primary_goals))

\* two emitted recommendations tie; the loops first reached the earlier one
\* under the first goal and the later one only under the second goal
C25_Witness ==
    /\ Returned
    /\ Len(user_preferences.primary_goals) = 2
    /\ \E i, j \in 1..Len(Emitted) :
          /\ i < j
          /\ Emitted[i].priority_score = Emitted[j].priority_score
          /\ FirstAppearance(Emitted[i], user_preferences.primary_goals)[1] = 1
          /\ FirstAppearance(Emitted[j], user_preferences.primary_goals)[1] = 2

(***************************************************************************)
(* C26: the report's total minimum and maximum are the sums of cost.min    *)
(* and cost.max over exactly the emitted recommendations, with currency    *)
(* "USD"; an item the budget loop admitted at its minimum cost still       *)
(* counts with its full maximum, so the maximum total may exceed what the  *)
(* loop counted.                                                           *)
(***************************************************************************)
C26_TotalsOverEmitted ==
    Returned =>
        /\ report.total_estimated_cost.min = CostOfFirst(Len(Emitted), Emitted, "min")
        /\ report.total_estimated_cost.max = CostOfFirst(Len(Emitted), Emitted, "max")
        /\ report.total_estimated_cost.currency = "USD"
        /\ DOMAIN report.total_estimated_cost = {"min", "max", "currency"}
        /\ report.total_estimated_cost.max
             = PrefixSpent(Len(Emitted))
               + CostOfFirst(Len(Emitted),
                             [i \in 1..Len(Emitted) |->
                                 [cost_range |->
                                    [max |-> IF AdmittedBy(i) = "min"
                                             THEN Emitted[i].cost_range.max
                                                  - Emitted[i].cost_range.min
                                             ELSE 0]]],
                             "max")

\* the list was cut to ten and an emitted item had been admitted at its
\* minimum cost
C26_Witness ==
    /\ Returned
    /\ Len(filtered) > Len(Emitted)
    /\ \E i \in 1..Len(Emitted) : AdmittedBy(i) = "min"
    /\ report.total_estimated_cost.max > PrefixSpent(Len(Emitted))

(***************************************************************************)
(* C27: the category of every emitted recommendation is in the priority    *)
(* list of at least one goal of the request; a request whose only goal is  *)
(* off_roading gets no ecu_remapping and no exhaust_system recommendation. *)
(***************************************************************************)
C27_CategoriesFollowGoals ==
    Returned =>
        /\ \A i \in 1..Len(Emitted) :
              \E g \in 1..Len(user_preferences.primary_goals) :
                  InList(Emitted[i].category,
                         engine.goal_priorities[user_preferences.primary_goals[g]])
        /\ (/\ user_preferences.primary_goals # << >>
            /\ \A g \in 1..Len(user_preferences.primary_goals) :
                  user_preferences.primary_goals[g] = "off_roading")
           => \A i \in 1..Len(Emitted) :
                  Emitted[i].category \notin {"ecu_remapping", "exhaust_system"}

\* an off-road-only request for a petrol car, with a budget that would pay
\* for an ECU remap, got recommendations
C27_Witness ==
    /\ Returned
    /\ user_preferences.primary_goals = <<"off_roading">>
    /\ car_info.engine_type = "petrol"
    /\ max_budget >= tuning_options["ecu_remapping"][2].cost_range.max
    /\ user_preferences.experience_level = "advanced"
    /\ Emitted # << >>

(***************************************************************************)
(* C28: each of the warranty, emissions and insurance tiers of the legal   *)
(* summary holds the entry "<name>: <impact text>" of an emitted           *)
(* recommendation exactly when that impact text is not the sentinel        *)
(* "No impact" (a text that merely starts with it counts as an impact),    *)
(* holds nothing else, and holds no string twice.                          *)
(***************************************************************************)
C28_LegalTiers ==
    Returned =>
        \A tier \in {<<"warranty_impacts", "warranty_impact">>,
                      <<"emissions_impacts", "emissions_impact">>,
                      <<"insurance_impacts", "insurance_impact">>} :
            LET listed == report.legal_summary[tier[1]]
                Entry(i) == Emitted[i].name \o ": " \o Emitted[i][tier[2]]
            IN  /\ \A i \in 1..Len(Emitted) :
                      BagIn(Entry(i), listed) <=> Emitted[i][tier[2]] # "No impact"
                /\ \A e \in BagToSet(listed) :
                      /\ CopiesIn(e, listed) = 1
                      /\ \E i \in 1..Len(Emitted) : e = Entry(i)

\* one emitted recommendation has the sentinel in a tier where another has a
\* text that starts with the sentinel's words
C28_Witness ==
    /\ Returned
    /\ \E i, j \in 1..Len(Emitted) :
          /\ Emitted[i].warranty_impact = "No impact"
          /\ Emitted[j].warranty_impact = "No impact on mechanical warranty"
          /\ BagIn(Emitted[j].name \o ": " \o Emitted[j].warranty_impact,
                   report.legal_summary.warranty_impacts)
          /\ ~BagIn(Emitted[i].name \o ": " \o Emitted[i].warranty_impact,
                    report.legal_summary.warranty_impacts)

(***************************************************************************)
(* C29: a vehicle whose only finding is an engine type that is not typical *)
(* for its make (Tesla with petrol) is valid for validate_car_info, and    *)
(* CarTuningAgent.generate_recommendations does not raise for it when the  *)
(* preferences are valid.                                                  *)
(***************************************************************************)
C29_AtypicalEngineOnlyWarns ==
    (/\ agent.pc # "validate"
     /\ agent.pc # "idle"
     /\ _validate_make(car_info.make)
     /\ _validate_model(car_info.make, car_info.model)
     /\ _validate_year(car_info.year)
     /\ \A k \in 1..Len(current_modifications(car_info)) :
            _validate_modification(current_modifications(car_info)[k])
     /\ ~_validate_engine_compatibility(car_info.make, car_info.engine_type)
     /\ validate_user_preferences(user_preferences))
        => /\ agent.car_valid
           /\ agent.pc # "raised"

(***************************************************************************)
(* C30: every instance of one (category, name) generated under different   *)
(* goals carries the same adjusted score, so the set of (category, name,   *)
(* score) triples after deduplication is the same for every order of the   *)
(* request's goals; the order of the goals changes only the order among    *)
(* candidates with equal score.                                            *)
(***************************************************************************)
C30_GoalOrderKeepsTriples ==
    /\ \A i, j \in 1..Len(all_recommendations) :
          (/\ all_recommendations[i].category = all_recommendations[j].category
           /\ all_recommendations[i].name = all_recommendations[j].name)
              => all_recommendations[i].priority_score
                   = all_recommendations[j].priority_score
    /\ (parked.pc = "done" /\ pc \in {"budget", "done"}) =>
          /\ Triples(sorted_recommendations) = Triples(parked.sorted_recommendations)
          /\ Len(sorted_recommendations) = Len(parked.sorted_recommendations)
          /\ Scores(sorted_recommendations) = Scores(parked.sorted_recommendations)

\* the second call, with the goals in the other order, sorted the same
\* candidates in another order, one of them generated under both goals
C30_Witness ==
    /\ parked.pc = "done"
    /\ pc = "done"
    /\ sorted_recommendations # parked.sorted_recommendations
    /\ \E i, j \in 1..Len(all_recommendations) :
          /\ i < j
          /\ all_recommendations[i].category = all_recommendations[j].category
          /\ all_recommendations[i].name = all_recommendations[j].name

====
